---- MODULE Spec2Model ----
(***************************************************************************)
(* Offline-first outbox of nine4-team/firebase-skeleton.                   *)
(*                                                                         *)
(* The outbox_ops table (outbox.ts), the Outbox static methods that read   *)
(* and write it, and the OutboxProcessor (networkStatus.ts) whose          *)
(* processBatch claims ready ops, pushes them through the push adapter and *)
(* reconciles the results.  processBatch is an async function: every await *)
(* of a store call or of the adapter is a point where the event loop can   *)
(* run something else.  One step of processBatch is the code that runs     *)
(* between two awaits: it ends by issuing the next store call, whose       *)
(* statement the store executes before any statement issued later, so the  *)
(* call's effect belongs to the step that issues it; pc names the call     *)
(* whose promise the body is waiting for.  Enqueue and claimPending are    *)
(* taken as one step each.  Time is Date.now(); it only moves in Tick.     *)
(***************************************************************************)
EXTENDS Integers, Sequences, FiniteSets, TLC

\* ------------------------------------------------------------------ bounds
MaxOps == 1          \* rows ever enqueued while the processor runs (Spec)
MaxBatchOps == 2     \* rows enqueued ahead of a batch that cannot take them all (SpecBatch)
MaxQueueOps == 3     \* rows ever enqueued when only the queue is used (SpecQueue)
MaxTicks == 1        \* short clock steps the model takes (besides one long step)
RandomDen == 4       \* Math.random() is drawn from {0/RandomDen .. (RandomDen-1)/RandomDen}
MaxLimit == 2        \* largest `limit` handed to claimPending
MaxBackoffAttempt == 7  \* largest attempt number fed to calculateBackoff on its own

\* ------------------------------------------------- configuration / constants
StaleMs == 300000    \* staleMs = 5 * 60 * 1000
batchSize == 1       \* OutboxProcessorConfig.batchSize handed to the constructor
maxAttempts == 2     \* OutboxProcessorConfig.maxAttempts handed to the constructor
backoffMs == 1000    \* DEFAULT_CONFIG.backoffMs
maxBackoffMs == 60000  \* DEFAULT_CONFIG.maxBackoffMs

TickMs == backoffMs  \* a short clock step is as long as the base backoff

\* a long clock step takes every lease taken before it past the staleness threshold
LongTickMs == StaleMs + TickMs

NULL == "NULL"       \* SQL NULL / JS null

VARIABLES
  outbox_ops,       \* the outbox_ops table: id -> row
  now,              \* Date.now()
  isProcessing,     \* OutboxProcessor.isProcessing
  processingScope,  \* OutboxProcessor.processingScope
  pc,               \* the await at which the running processBatch body is suspended
  pbScope,          \* processBatch: its `scope` argument
  pendingOps,       \* processBatch: const pendingOps
  exhaustedOps,     \* processBatch: exhaustedOps not yet marked failed
  readyOps,         \* processBatch: const readyOps
  resultsById,      \* processBatch: const resultsById
  idx,              \* processBatch: position of the reconcile loop in readyOps
  processedCount,   \* processBatch: let processedCount
  ret,              \* what the latest step returned to a caller (NoRet: nothing)
  failCount,        \* per op: retryable `failed` results the adapter has returned for it
  pushCount,        \* per op: the pushOps calls it has been handed to the adapter in
  bk,               \* calculateBackoff evaluated on its own: inputs and value
  sync_cursors,     \* the sync_cursors table: <<scope_key, collection_key>> -> cursor
  example_items,    \* the example_items table: id -> row
  conflicts,        \* the conflicts table: id -> row
  dr,               \* DeltaRunner.runDeltaPull: the locals of the running call
  ap,               \* applyChanges: the locals of the running call and its transaction
  so                \* SyncOrchestrator, the sync store and the calls of the orchestrator
                    \* that are under way

\* the delta pull, the apply engine, the conflicts and the orchestrator
extVars == <<sync_cursors, example_items, conflicts, dr, ap, so>>

vars == <<outbox_ops, now, isProcessing, processingScope, pc, pbScope, pendingOps,
          exhaustedOps, readyOps, resultsById, idx, processedCount, ret,
          failCount, pushCount, bk, extVars>>

procVars == <<isProcessing, processingScope, pc, pbScope, pendingOps, exhaustedOps,
              readyOps, resultsById, idx, processedCount>>

\* ------------------------------------------------------------------- types
Scopes == { [type |-> "global", id |-> ""], [type |-> "workspace", id |-> "w1"] }

scopeKey(scope) ==
  IF scope.type = "global" THEN "global"
  ELSE IF scope.id # "" THEN scope.type \o ":" \o scope.id
  ELSE scope.type

safeJsonEncode(value) ==
  "{\"code\":\"" \o value.code \o "\",\"message\":\"" \o value.message \o "\"}"

NoError == [code |-> "", message |-> ""]   \* the `error` argument left out (undefined)

\* error argument of updateState: `error ? safeJsonEncode(error) : null`
errorJson(error) == IF error = NoError THEN NULL ELSE safeJsonEncode(error)

Min(a, b) == IF a < b THEN a ELSE b
Max(a, b) == IF a > b THEN a ELSE b

RECURSIVE pow2(_)
pow2(n) == IF n = 0 THEN 1 ELSE 2 * pow2(n - 1)

Range(s) == { s[i] : i \in DOMAIN s }

\* Array.prototype.slice(0, n)
Take(s, n) == SubSeq(s, 1, Min(n, Len(s)))

\* ------------------------------------------------------------ JSON payloads
\* entity ids; ids that differ from one another only in letter case are different ids
EntityIds == {"e1", "e2", "E1"}

NoRef == ""    \* the payload has no `ref` property

\* the payloads enqueued: {id: x} and {id: x, ref: {id: y}}
Payloads == { [id |-> x, ref |-> y] : x \in EntityIds, y \in {NoRef} \cup EntityIds }

quote(str) == "\"" \o str \o "\""

\* JSON.stringify(payload), as the list of its tokens
payloadJson(payload) ==
  IF payload.ref = NoRef
  THEN << "{", quote("id"), ":", quote(payload.id), "}" >>
  ELSE << "{", quote("id"), ":", quote(payload.id), ",", quote("ref"), ":",
          "{", quote("id"), ":", quote(payload.ref), "}", "}" >>

\* the string a quoted JSON token stands for
unquote(token) == CHOOSE str \in EntityIds \cup {"id", "ref"} : quote(str) = token

\* what safeJsonDecode returns for a string that does not parse (null), kept as a
\* record so that it can be compared with a payload
NullPayload == [id |-> NULL, ref |-> NULL]

\* safeJsonDecode(json): JSON.parse of the token list, null when it does not parse
safeJsonDecode(json) ==
  IF /\ Len(json) = 5 /\ json[1] = "{" /\ json[2] = quote("id") /\ json[3] = ":"
     /\ json[5] = "}"
  THEN [id |-> unquote(json[4]), ref |-> NoRef]
  ELSE IF /\ Len(json) = 13 /\ json[1] = "{" /\ json[2] = quote("id") /\ json[3] = ":"
          /\ json[5] = "," /\ json[6] = quote("ref") /\ json[7] = ":" /\ json[8] = "{"
          /\ json[9] = quote("id") /\ json[10] = ":" /\ json[12] = "}" /\ json[13] = "}"
  THEN [id |-> unquote(json[4]), ref |-> unquote(json[11])]
  ELSE NullPayload

\* the payload an op enqueued for entity x1 carries
x1Payload == [id |-> "e1", ref |-> NoRef]

\* ------------------------------------------------------------------ Outbox
mapRowToOp(row) ==
  [ id |-> row.id, scopeKey |-> row.scope_key, entityKey |-> row.entity_key,
    opType |-> row.op_type, idempotencyKey |-> row.idempotency_key,
    payloadJson |-> row.payload_json, attemptCount |-> row.attempt_count,
    state |-> row.state, lastErrorJson |-> row.last_error_json,
    createdAt |-> row.created_at, updatedAt |-> row.updated_at ]

NoKey == <<>>    \* EnqueueOptions.idempotencyKey left out (or the empty string)

\* keys are kept as tuples: a key the caller supplies is <<key>>, and the key
\* `${entityKey}:${opType}:${generateUUID()}` is the tuple of its three parts; the
\* UUID drawn for the key is named by the number of the enqueue call that drew it
generatedKey(entityKey, opType, uuid) == << entityKey, opType, uuid >>

\* options.idempotencyKey || `${options.entityKey}:${options.opType}:${generateUUID()}`
idempotencyKeyOf(options, uuid) ==
  IF options.idempotencyKey # NoKey THEN options.idempotencyKey
  ELSE generatedKey(options.entityKey, options.opType, uuid)

\* INSERT INTO outbox_ops ... VALUES (opId, scopeKeyStr, ..., 0, 'pending', null, now, now)
enqueue(db, opId, options, t) ==
  [ id \in DOMAIN db \cup {opId} |->
      IF id = opId
      THEN [ id |-> opId, scope_key |-> scopeKey(options.scope),
             entity_key |-> options.entityKey, op_type |-> options.opType,
             idempotency_key |-> idempotencyKeyOf(options, opId),
             payload_json |-> payloadJson(options.payload), attempt_count |-> 0,
             state |-> "pending", last_error_json |-> NULL,
             created_at |-> t, updated_at |-> t ]
      ELSE db[id] ]

\* UPDATE ... SET state='pending', updated_at=now
\*  WHERE scope_key=? AND state='in_flight' AND updated_at < now - staleMs
resetStaleInFlight_AnyState(db, scope, t) ==
  [ id \in DOMAIN db |->
      IF db[id].scope_key = scopeKey(scope) /\ db[id].updated_at < t - StaleMs
      THEN [db[id] EXCEPT !.state = "pending", !.updated_at = t]
      ELSE db[id] ]

resetStaleInFlight_TouchAttempts(db, scope, t) ==
  [ id \in DOMAIN db |->
      IF db[id].scope_key = scopeKey(scope) /\ db[id].state = "in_flight"
         /\ db[id].updated_at < t - StaleMs
      THEN [db[id] EXCEPT !.state = "pending", !.updated_at = t,
                          !.attempt_count = db[id].attempt_count + 1]
      ELSE db[id] ]

resetStaleInFlight(db, scope, t) ==
  [ id \in DOMAIN db |->
      IF db[id].scope_key = scopeKey(scope) /\ db[id].state = "in_flight"
         /\ db[id].updated_at < t - StaleMs
      THEN [db[id] EXCEPT !.state = "pending", !.updated_at = t]
      ELSE db[id] ]

\* the rows SELECT ... WHERE scope_key=? AND state='pending' matches
pendingIds_AnyScope(db, scope) == { id \in DOMAIN db : db[id].state = "pending" }

pendingIds(db, scope) ==
  { id \in DOMAIN db : db[id].scope_key = scopeKey(scope) /\ db[id].state = "pending" }

RECURSIVE OrderedBy_Desc(_, _, _)
OrderedBy_Desc(db, S, limit) ==
  IF S = {} \/ limit = 0 THEN { <<>> }
  ELSE UNION { { <<first>> \o rest : rest \in OrderedBy_Desc(db, S \ {first}, limit - 1) } :
               first \in { x \in S : \A y \in S : db[x].created_at >= db[y].created_at } }

\* every list of ids of `S` that ORDER BY created_at ASC LIMIT limit may produce
\* (rows with equal created_at come in an order SQL leaves open)
RECURSIVE OrderedBy(_, _, _)
OrderedBy(db, S, limit) ==
  IF S = {} \/ limit = 0 THEN { <<>> }
  ELSE UNION { { <<first>> \o rest : rest \in OrderedBy(db, S \ {first}, limit - 1) } :
               first \in { x \in S : \A y \in S : db[x].created_at <= db[y].created_at } }

\* SELECT * ... WHERE scope_key=? AND state='pending' ORDER BY created_at ASC LIMIT ?
\* the set of result lists the query may return
getPending(db, scope, limit) ==
  { [i \in DOMAIN t |-> mapRowToOp(db[t[i]])] :
      t \in OrderedBy(db, pendingIds(db, scope), limit) }

\* UPDATE ... SET state='in_flight', updated_at=now WHERE id IN (...) AND state='pending'
claimByIds(db, opIds, t) ==
  [ id \in DOMAIN db |->
      IF id \in opIds /\ db[id].state = "pending"
      THEN [db[id] EXCEPT !.state = "in_flight", !.updated_at = t]
      ELSE db[id] ]

\* SELECT * ... WHERE id IN (...)   (no ORDER BY: the result is held as id -> op)
getByIds(db, opIds) == [ id \in opIds \cap DOMAIN db |-> mapRowToOp(db[id]) ]

\* UPDATE ... SET state=?, last_error_json=?, updated_at=? WHERE id=?
updateState_KeepsState(db, opId, state, error, t) ==
  [ id \in DOMAIN db |->
      IF id = opId
      THEN [db[id] EXCEPT !.last_error_json = errorJson(error), !.updated_at = t]
      ELSE db[id] ]

updateState(db, opId, state, error, t) ==
  [ id \in DOMAIN db |->
      IF id = opId
      THEN [db[id] EXCEPT !.state = state, !.last_error_json = errorJson(error),
                          !.updated_at = t]
      ELSE db[id] ]

\* DELETE FROM outbox_ops WHERE scope_key = ? AND state = 'succeeded'
\*   [AND updated_at < now - olderThanMs]   (olderThanMs left out, or 0: every one)
deletedIds(db, scope, olderThanMs, t) ==
  { id \in DOMAIN db :
      /\ db[id].scope_key = scopeKey(scope)
      /\ db[id].state = "succeeded"
      /\ olderThanMs # 0 => db[id].updated_at < t - olderThanMs }

deleteSucceeded(db, scope, olderThanMs, t) ==
  [ id \in DOMAIN db \ deletedIds(db, scope, olderThanMs, t) |-> db[id] ]

\* UPDATE ... SET state='pending', attempt_count=attempt_count+1, updated_at=? WHERE id=?
markForRetry_NoIncrement(db, opId, t) ==
  [ id \in DOMAIN db |->
      IF id = opId
      THEN [db[id] EXCEPT !.state = "pending", !.updated_at = t]
      ELSE db[id] ]

markForRetry_NewKey(db, opId, t) ==
  [ id \in DOMAIN db |->
      IF id = opId
      THEN [db[id] EXCEPT !.state = "pending",
                          !.attempt_count = db[id].attempt_count + 1,
                          !.idempotency_key =
                             generatedKey(db[id].entity_key, db[id].op_type,
                                          db[id].attempt_count + 1),
                          !.updated_at = t]
      ELSE db[id] ]

markForRetry(db, opId, t) ==
  [ id \in DOMAIN db |->
      IF id = opId
      THEN [db[id] EXCEPT !.state = "pending",
                          !.attempt_count = db[id].attempt_count + 1,
                          !.updated_at = t]
      ELSE db[id] ]

\* ---------------------------------------------------------- OutboxProcessor
\* scaled so that the value is an integer: the delay in ms times BackoffScale
BackoffScale == 5 * RandomDen

\* Math.random() as the fraction random/RandomDen, random in 0..RandomDen-1
RandomValues == 0 .. (RandomDen - 1)

\* exponentialDelay = min(baseMs * 2^attemptCount, maxMs)
\* jitter = exponentialDelay * 0.2 * (random * 2 - 1)
\* return max(0, exponentialDelay + jitter)          (times BackoffScale)
calculateBackoff(attemptCount, baseMs, maxMs, random) ==
  LET exponentialDelay == Min(baseMs * pow2(attemptCount), maxMs)
      jitter == exponentialDelay * (2 * random - RandomDen)
  IN  Max(0, exponentialDelay * BackoffScale + jitter)

isBackoffElapsed_Always(op, t, random) == TRUE

isBackoffElapsed(op, t, random) ==
  IF op.attemptCount = 0 THEN TRUE
  ELSE LET backoffDelay == calculateBackoff(op.attemptCount - 1, backoffMs, maxBackoffMs, random)
           timeSinceUpdate == t - op.updatedAt
       IN  timeSinceUpdate * BackoffScale >= backoffDelay

\* the results the push adapter may give for one op
Errors == { [code |-> "stub_error", message |-> "simulated failure"] }

PushResults ==
  { [status |-> "succeeded"] }
  \cup { [status |-> "failed", retryable |-> r, error |-> e] : r \in BOOLEAN, e \in Errors }
  \cup { [status |-> "blocked", reason |-> "auth required"] }

NoResult == [status |-> "none"]   \* resultsById.get(op.id) === undefined

MaxAttemptsError == [code |-> "max_attempts", message |-> "Max retry attempts reached"]
MissingResultError ==
  [code |-> "missing_result", message |-> "Adapter did not return a result for this operation"]
BlockedError(reason) == [code |-> "blocked", message |-> reason]

\* ------------------------------------------------------------------- state
NoScope == [type |-> "none", id |-> ""]   \* processingScope = null
\* a return: the call, its arguments, how it ended, the value and the rows it gave back
NoRet == [call |-> "none", args |-> <<>>, outcome |-> "none", value |-> 0, rows |-> <<>>]

\* no runDeltaPull is running
NoRun == [pc |-> "idle"]

\* no applyChanges is running
NoApply == [pc |-> "idle"]

\* createInitialStatus(): lastSyncAt and lastError undefined are <<>>, set they are <<v>>
createInitialStatus ==
  [ isOnline |-> TRUE, isSyncing |-> FALSE, pendingOutboxOps |-> 0, lastSyncAt |-> <<>>,
    lastError |-> <<>> ]

\* no call of the orchestrator is under way.  Of a call: `fn`, the entry point;
\* `pc`, the await it stands at; wasSyncing and processed, the locals of
\* processOutbox; `count`, what the countPending it awaits has read.  Noted for the
\* call: `drained`, its do-while loop has ended; `scope`, the scope that was active
\* when its processOutbox passed its guards.
NoTask ==
  [ fn |-> "none", pc |-> "idle", wasSyncing |-> FALSE, processed |-> 0, count |-> 0,
    drained |-> FALSE, scope |-> NoScope ]

\* the orchestrator after its constructor, the sync store as created, the network
\* (`online` is what getNetworkStatus() returns), and the two calls that may be
\* under way: one made by the app and one made by the poll timer.  `waiting` holds
\* the runDeltaPull whose await is pending while another runDeltaPull is taken
\* forward, with the call that awaits it.
NoSync ==
  [ activeScope |-> NoScope, isStarted |-> FALSE, isPaused |-> FALSE,
    processingInterval |-> FALSE, networkStatusUnsubscribe |-> FALSE,
    appStateSubscription |-> FALSE, signalUnsubscribe |-> FALSE,
    attachments |-> <<>>, signalDebounceTimer |-> <<>>, timers |-> {}, sinceSignal |-> <<>>,
    online |-> TRUE, status |-> createInitialStatus, app |-> NoTask, poll |-> NoTask,
    sig |-> NoTask, waiting |-> <<>> ]

InitExt ==
  /\ sync_cursors = <<>>
  /\ example_items = <<>>
  /\ conflicts = <<>>
  /\ dr = NoRun
  /\ ap = NoApply
  /\ so = NoSync

Init ==
  /\ InitExt
  /\ outbox_ops = <<>>
  /\ now = 0
  /\ isProcessing = FALSE
  /\ processingScope = NoScope
  /\ pc = "idle"
  /\ pbScope = NoScope
  /\ pendingOps = <<>>
  /\ exhaustedOps = <<>>
  /\ readyOps = <<>>
  /\ resultsById = <<>>
  /\ idx = 0
  /\ processedCount = 0
  /\ ret = NoRet
  /\ failCount = <<>>
  /\ pushCount = <<>>
  /\ bk = <<>>

\* ----------------------------------------------------------------- actions
\* the clock moves
Tick ==
  /\ \/ /\ (now % LongTickMs) + TickMs <= MaxTicks * TickMs
        /\ now' = now + TickMs
     \/ /\ now < LongTickMs
        /\ now' = now + LongTickMs
  /\ ret' = NoRet /\ UNCHANGED <<outbox_ops, procVars, failCount, pushCount, bk, extVars>>

\* Outbox.enqueue(options): one INSERT in one transaction
EnqueueOptions(options) ==
  /\ LET opId == Cardinality(DOMAIN failCount) + 1   \* generateUUID(): an id never given before
     IN  /\ outbox_ops' = enqueue(outbox_ops, opId, options, now)
         /\ failCount' = [id \in DOMAIN failCount \cup {opId} |->
                            IF id = opId THEN 0 ELSE failCount[id]]
  /\ ret' = NoRet /\ UNCHANGED <<now, procVars, pushCount, bk, extVars>>

\* Outbox.enqueue({scope, entityKey, opType: 'upsert', payload}): no key supplied
Enqueue(scope, entityKey, payload) ==
  EnqueueOptions([scope |-> scope, entityKey |-> entityKey, opType |-> "upsert",
                  payload |-> payload, idempotencyKey |-> NoKey])

\* Outbox.resetStaleInFlight(scope) called on its own
ResetStaleInFlight(scope) ==
  /\ outbox_ops' = resetStaleInFlight(outbox_ops, scope, now)
  /\ outbox_ops' # outbox_ops
  /\ ret' = NoRet /\ UNCHANGED <<now, procVars, failCount, pushCount, bk, extVars>>

\* Outbox.deleteSucceeded(scope, olderThanMs): returns result.changes
DeleteSucceeded(scope, olderThanMs) ==
  /\ outbox_ops' = deleteSucceeded(outbox_ops, scope, olderThanMs, now)
  /\ ret' = [call |-> "deleteSucceeded", args |-> <<scope, olderThanMs>>,
             outcome |-> "returned", rows |-> <<>>,
             value |-> Cardinality(deletedIds(outbox_ops, scope, olderThanMs, now))]
  /\ UNCHANGED <<now, procVars, failCount, pushCount, bk, extVars>>

\* Outbox.claimPending(scope, limit): resetStaleInFlight, getPending, claimByIds, getByIds
ClaimPending(scope, limit) ==
  LET db1 == resetStaleInFlight(outbox_ops, scope, now)
  IN  \E pending \in getPending(db1, scope, limit) :
        LET opIds == { pending[i].id : i \in DOMAIN pending }
            db2 == claimByIds(db1, opIds, now)
        IN  /\ outbox_ops' = db2
            /\ ret' = [call |-> "claimPending", args |-> <<scope, limit>>,
                       outcome |-> "returned", value |-> 0, rows |-> getByIds(db2, opIds)]
            /\ UNCHANGED <<now, procVars, failCount, pushCount, bk, extVars>>

\* --------------------------------------------------- processBatch, by await
locals == <<pbScope, pendingOps, exhaustedOps, readyOps, resultsById, idx, processedCount>>

\* } finally { this.isProcessing = false; this.processingScope = null; }
\* and the call's outcome reaches its caller
Finally(outcome, value) ==
  /\ isProcessing' = FALSE
  /\ processingScope' = NoScope
  /\ pc' = "idle"
  /\ pbScope' = NoScope
  /\ pendingOps' = <<>>
  /\ exhaustedOps' = <<>>
  /\ readyOps' = <<>>
  /\ resultsById' = <<>>
  /\ idx' = 0
  /\ processedCount' = 0
  /\ ret' = [call |-> "processBatch", args |-> <<pbScope>>, outcome |-> outcome,
             value |-> value, rows |-> <<>>]

\* if (this.isProcessing) { return 0; }
Reentrant_Off == FALSE

Reentrant == isProcessing

ProcessBatchBusy(scope) ==
  /\ Reentrant
  /\ ret' = [call |-> "processBatch", args |-> <<scope>>, outcome |-> "busy",
             value |-> 0, rows |-> <<>>]
  /\ UNCHANGED <<outbox_ops, now, procVars, failCount, pushCount, bk, sync_cursors, example_items,
                 conflicts, dr, ap>>

\* processBatch(null): scopeKey(null) raises in Outbox.resetStaleInFlight and the
\* exception leaves processBatch through finally
ProcessBatchNoScope ==
  /\ ~Reentrant
  /\ ret' = [call |-> "processBatch", args |-> <<NoScope>>, outcome |-> "threw",
             value |-> 0, rows |-> <<>>]
  /\ UNCHANGED <<outbox_ops, now, procVars, failCount, pushCount, bk, sync_cursors, example_items,
                 conflicts, dr, ap>>

\* this.isProcessing = true; this.processingScope = scope;
\* await Outbox.resetStaleInFlight(scope)
ProcessBatch(scope) ==
  /\ ~Reentrant
  /\ isProcessing' = TRUE
  /\ processingScope' = scope
  /\ pbScope' = scope
  /\ outbox_ops' = resetStaleInFlight(outbox_ops, scope, now)
  /\ pc' = "resetStaleInFlight"
  /\ ret' = NoRet
  /\ UNCHANGED <<now, pendingOps, exhaustedOps, readyOps, resultsById, idx,
                 processedCount, failCount, pushCount, bk, sync_cursors, example_items, conflicts,
                 dr, ap>>

\* const pendingOps = await Outbox.getPending(scope, this.config.batchSize * 5)
PB_GetPending ==
  /\ pc = "resetStaleInFlight"
  /\ pendingOps' \in getPending(outbox_ops, pbScope, batchSize * 5)
  /\ pc' = "getPending"
  /\ ret' = NoRet
  /\ UNCHANGED <<outbox_ops, now, isProcessing, processingScope, pbScope, exhaustedOps,
                 readyOps, resultsById, idx, processedCount, failCount, pushCount, bk, extVars>>

isExhausted(op) == op.attemptCount >= maxAttempts

\* retryCandidates.filter(isBackoffElapsed).slice(0, batchSize), one Math.random() per call
ReadyOps(pending, random) ==
  LET retryCandidates == SelectSeq(pending, LAMBDA op : ~isExhausted(op))
      ready == SelectSeq(retryCandidates, LAMBDA op :
                 isBackoffElapsed(op, now, IF op.id \in DOMAIN random THEN random[op.id] ELSE 0))
  IN  Take(ready, batchSize)

\* from the end of the exhausted loop to the next await:
\* no ready op -> return 0, else await Outbox.claimByIds(readyOps.map((op) => op.id))
FilterAndClaim ==
  \E random \in [ { pendingOps[i].id : i \in { j \in DOMAIN pendingOps :
                       ~isExhausted(pendingOps[j]) /\ pendingOps[j].attemptCount > 0 } }
                   -> RandomValues ] :
    LET ready == ReadyOps(pendingOps, random)
    IN  IF Len(ready) = 0
        THEN /\ Finally("returned", 0)
             /\ UNCHANGED outbox_ops
        ELSE /\ outbox_ops' = claimByIds(outbox_ops, { ready[i].id : i \in DOMAIN ready }, now)
             /\ readyOps' = ready
             /\ pc' = "claimByIds"
             /\ pendingOps' = <<>>      \* not read again
             /\ exhaustedOps' = <<>>
             /\ ret' = NoRet
             /\ UNCHANGED <<isProcessing, processingScope, pbScope, resultsById, idx,
                            processedCount>>

\* for (const op of exhaustedOps) await Outbox.updateState(op.id, 'failed', max_attempts)
MarkExhausted(exhausted) ==
  /\ outbox_ops' = updateState(outbox_ops, Head(exhausted).id, "failed", MaxAttemptsError, now)
  /\ exhaustedOps' = Tail(exhausted)
  /\ pc' = "exhausted"
  /\ ret' = NoRet
  /\ UNCHANGED <<isProcessing, processingScope, pbScope, pendingOps, readyOps, resultsById,
                 idx, processedCount>>

\* getPending has resolved: empty -> return 0; else the exhausted split
PB_SplitExhausted ==
  /\ pc = "getPending"
  /\ LET exhausted == SelectSeq(pendingOps, isExhausted)
     IN  IF Len(pendingOps) = 0
         THEN Finally("returned", 0) /\ UNCHANGED outbox_ops
         ELSE IF Len(exhausted) > 0
         THEN MarkExhausted(exhausted)
         ELSE FilterAndClaim
  /\ UNCHANGED <<now, failCount, pushCount, bk, extVars>>

\* an updateState of the exhausted loop has resolved: next one, or the ready filter
PB_Exhausted ==
  /\ pc = "exhausted"
  /\ IF Len(exhaustedOps) > 0
     THEN MarkExhausted(exhaustedOps)
     ELSE FilterAndClaim
  /\ UNCHANGED <<now, failCount, pushCount, bk, extVars>>

\* readyOps.map((op) => ({id, entityKey, opType, payload: safeJsonDecode(op.payloadJson),
\* idempotencyKey})): the ops handed to adapter.pushOps
adapterOps(ops) ==
  [ i \in DOMAIN ops |->
      [ id |-> ops[i].id, entityKey |-> ops[i].entityKey, opType |-> ops[i].opType,
        payload |-> safeJsonDecode(ops[i].payloadJson),
        idempotencyKey |-> ops[i].idempotencyKey ] ]

\* claimByIds has resolved: const results = await this.adapter.pushOps(scope, adapterOps)
PB_PushOps ==
  /\ pc = "claimByIds"
  /\ pc' = "pushOps"
  /\ pushCount' = [ id \in DOMAIN pushCount \cup { readyOps[i].id : i \in DOMAIN readyOps } |->
                      (IF id \in DOMAIN pushCount THEN pushCount[id] ELSE 0)
                      + (IF \E i \in DOMAIN readyOps : readyOps[i].id = id THEN 1 ELSE 0) ]
  /\ ret' = NoRet
  /\ UNCHANGED <<outbox_ops, now, isProcessing, processingScope, locals, failCount, bk, extVars>>

\* result.retryable && op.attemptCount + 1 < this.config.maxAttempts
attemptsRemain_OneMore(op) == op.attemptCount < maxAttempts

attemptsRemain_OneLess(op) == op.attemptCount + 2 < maxAttempts

attemptsRemain(op) == op.attemptCount + 1 < maxAttempts

\* the loop body starts with markForRetry: no result, or a retryable failure with attempts left
retries(op, result) ==
  \/ result = NoResult
  \/ result.status = "failed" /\ result.retryable /\ attemptsRemain(op)

\* state of the single updateState call of a result that is not retried
terminalState_BlockedAsFailed(result) ==
  IF result.status = "succeeded" THEN "succeeded" ELSE "failed"

terminalState(result) ==
  IF result.status = "succeeded" THEN "succeeded"
  ELSE IF result.status = "failed" THEN "failed"
  ELSE "blocked"

\* error of that updateState call
terminalError(result) ==
  IF result.status = "succeeded" THEN NoError
  ELSE IF result.status = "failed" THEN result.error
  ELSE BlockedError(result.reason)

\* error of the updateState(op.id, 'pending', ...) that follows markForRetry
retryError(result) == IF result = NoResult THEN MissingResultError ELSE result.error

\* loop body for readyOps[i], up to its first await
LoopBody(i, results, count) ==
  LET op == readyOps[i]
      result == results[op.id]
  IN  /\ idx' = i
      /\ resultsById' = results
      /\ ret' = NoRet
      /\ UNCHANGED <<isProcessing, processingScope, pbScope, pendingOps, exhaustedOps, readyOps>>
      /\ IF retries(op, result)
         THEN /\ outbox_ops' = markForRetry(outbox_ops, op.id, now)
              /\ processedCount' = count
              /\ pc' = "markForRetry"
         ELSE /\ outbox_ops' = updateState(outbox_ops, op.id, terminalState(result),
                                           terminalError(result), now)
              /\ processedCount' = IF result.status = "succeeded" THEN count + 1 ELSE count
              /\ pc' = "updateState"

\* pushOps has resolved with its results: resultsById = new Map(...), first loop body
PB_Results ==
  /\ pc = "pushOps"
  /\ \E results \in [ { readyOps[i].id : i \in DOMAIN readyOps } -> PushResults \cup {NoResult} ] :
       /\ failCount' = [ id \in DOMAIN failCount |->
                           IF id \in DOMAIN results /\ results[id].status = "failed"
                              /\ results[id].retryable
                           THEN failCount[id] + 1 ELSE failCount[id] ]
       /\ LoopBody(1, results, 0)
  /\ UNCHANGED <<now, pushCount, bk, extVars>>

\* pushOps rejects: the exception leaves processBatch through finally
PB_PushOpsRejects_MarksFailed ==
  /\ pc = "pushOps"
  /\ outbox_ops' = [ id \in DOMAIN outbox_ops |->
                       IF \E i \in DOMAIN readyOps : readyOps[i].id = id
                       THEN [outbox_ops[id] EXCEPT !.state = "failed", !.updated_at = now]
                       ELSE outbox_ops[id] ]
  /\ Finally("threw", 0)
  /\ UNCHANGED <<now, failCount, pushCount, bk, extVars>>

PB_PushOpsRejects ==
  /\ pc = "pushOps"
  /\ Finally("threw", 0)
  /\ UNCHANGED <<outbox_ops, now, failCount, pushCount, bk, extVars>>

\* markForRetry has resolved: await Outbox.updateState(op.id, 'pending', error)
PB_RetryUpdateState ==
  /\ pc = "markForRetry"
  /\ LET op == readyOps[idx]
     IN  outbox_ops' = updateState(outbox_ops, op.id, "pending", retryError(resultsById[op.id]), now)
  /\ pc' = "updateState"
  /\ ret' = NoRet
  /\ UNCHANGED <<now, isProcessing, processingScope, locals, failCount, pushCount, bk, extVars>>

\* the last store call of a loop body has resolved: next op, or return processedCount
PB_NextOp ==
  /\ pc = "updateState"
  /\ IF idx < Len(readyOps)
     THEN LoopBody(idx + 1, resultsById, processedCount)
     ELSE Finally("returned", processedCount) /\ UNCHANGED outbox_ops
  /\ UNCHANGED <<now, failCount, pushCount, bk, extVars>>

\* ------------------------------------------------------------ specification
Step ==
  \/ PB_GetPending
  \/ PB_SplitExhausted
  \/ PB_Exhausted
  \/ PB_PushOps
  \/ PB_Results
  \/ PB_PushOpsRejects
  \/ PB_RetryUpdateState
  \/ PB_NextOp

\* the scope the orchestrator has active, for which it calls the processor
ActiveScopes == { [type |-> "workspace", id |-> "w1"] }

\* The queue and the processor.  A store call resolves within the clock step in
\* which it was issued: time passes while the body waits for the adapter, or
\* while no body runs.  Ops are enqueued and processBatch is called at any time;
\* claimPending and resetStaleInFlight, which nothing but processBatch uses in
\* the repository, are called directly between two batches.  A claimPending that
\* neither resets nor claims a row leaves the table as it is and is not taken as
\* a step here.
Next ==
  \/ pc \in {"idle", "pushOps"} /\ Tick
  \/ Cardinality(DOMAIN outbox_ops) < MaxOps
       /\ \E scope \in ActiveScopes : Enqueue(scope, "example_items", x1Payload)
  \/ pc = "idle" /\ \E scope \in ActiveScopes : ResetStaleInFlight(scope)
  \/ \E scope \in ActiveScopes, limit \in 1..MaxLimit :
       pc = "idle" /\ ClaimPending(scope, limit) /\ outbox_ops' # outbox_ops
  \/ \E scope \in ActiveScopes : ProcessBatchBusy(scope) /\ UNCHANGED so
  \/ \E scope \in ActiveScopes : ProcessBatch(scope) /\ UNCHANGED so
  \/ Step

Spec == Init /\ [][Next]_vars

\* The queue used on its own by a caller that enqueues and claims, in every scope
\* (claimPending does the reset of stale leases itself).  As above, a claimPending
\* that finds nothing to reset or to claim is not taken as a step.
NextQueue ==
  \/ Tick
  \/ Cardinality(DOMAIN outbox_ops) < MaxQueueOps
       /\ \E scope \in Scopes : Enqueue(scope, "example_items", x1Payload)
  \/ \E scope \in Scopes, limit \in 1..MaxLimit :
       ClaimPending(scope, limit) /\ outbox_ops' # outbox_ops

SpecQueue == Init /\ [][NextQueue]_vars

\* calculateBackoff on its own: two calls, for an attempt and for the next one, each
\* with its own Math.random()
InitBackoff ==
  /\ InitExt
  /\ outbox_ops = <<>>
  /\ now = 0
  /\ isProcessing = FALSE
  /\ processingScope = NoScope
  /\ pc = "idle"
  /\ pbScope = NoScope
  /\ pendingOps = <<>>
  /\ exhaustedOps = <<>>
  /\ readyOps = <<>>
  /\ resultsById = <<>>
  /\ idx = 0
  /\ processedCount = 0
  /\ ret = NoRet
  /\ failCount = <<>>
  /\ pushCount = <<>>
  /\ bk \in [ attemptCount : 0 .. MaxBackoffAttempt, random : RandomValues,
              nextRandom : RandomValues, computed : {FALSE}, delay : {0}, nextDelay : {0} ]

CalculateBackoff ==
  /\ ~bk.computed
  /\ bk' = [bk EXCEPT
              !.computed = TRUE,
              !.delay = calculateBackoff(bk.attemptCount, backoffMs, maxBackoffMs, bk.random),
              !.nextDelay = calculateBackoff(bk.attemptCount + 1, backoffMs, maxBackoffMs,
                                             bk.nextRandom)]
  /\ UNCHANGED <<outbox_ops, now, procVars, ret, failCount, pushCount, extVars>>

NextBackoff == CalculateBackoff

SpecBackoff == InitBackoff /\ [][NextBackoff]_vars

\* ============================================================ delta pull
\* DeltaRunner (dbStore.ts), applyChanges (applyEngine.ts), the example handler,
\* the conflicts table and the default conflict detector.  runDeltaPull is an
\* async function taken await by await, like processBatch; inside the apply
\* transaction one iteration of the loop over the changes is one step.

\* ------------------------------------------------------------------ bounds
MaxPageLen == 2       \* most changes in one page the pull adapter returns
MaxDeltaOps == 1      \* rows ever enqueued next to the delta pull (SpecDelta)

\* ------------------------------------------------------------ configuration
maxPagesPerRun == 2   \* DeltaRunnerConfig.maxPagesPerRun handed to the constructor

DEFAULT_CURSOR == "0"

\* the cursors the pull adapter hands out
Cursors == {"c1", "c2"}

CollectionKeys == {"example_items"}

\* --------------------------------------------------------------- DeltaChange
UpsertChange(entityKey, entityId, data, updatedAt) ==
  [ kind |-> "upsert", entityKey |-> entityKey, entityId |-> entityId, data |-> data,
    updatedAt |-> updatedAt ]

DeleteChange(entityKey, entityId, updatedAt) ==
  [ kind |-> "delete", entityKey |-> entityKey, entityId |-> entityId,
    updatedAt |-> updatedAt ]

\* the changes the pull adapter delivers
DeltaChanges ==
  { UpsertChange("example_items", "e1", [name |-> "a"], 1),
    UpsertChange("example_items", "e2", [name |-> "b"], 1),
    DeleteChange("example_items", "e1", 1) }

\* the changes the pull adapter delivers while the pages of a run are followed
PulledChanges == { UpsertChange("example_items", "e1", [name |-> "a"], 1) }

RECURSIVE SeqsUpTo(_, _)
SeqsUpTo(S, n) ==
  IF n = 0 THEN { <<>> }
  ELSE LET shorter == SeqsUpTo(S, n - 1)
       IN  shorter \cup { Append(s, x) : s \in { t \in shorter : Len(t) = n - 1 }, x \in S }

\* DeltaPullResponse: hasMore is optional
DeltaPullResponses(changes) ==
  LET pages == SeqsUpTo(changes, MaxPageLen)
  IN  { [changes |-> p, nextCursor |-> c, hasMore |-> h] :
          p \in pages, c \in Cursors, h \in BOOLEAN }
      \cup { [changes |-> p, nextCursor |-> c] : p \in pages, c \in Cursors }

\* the pages the pull adapter answers with while the pages of a run are followed
PulledResponses == DeltaPullResponses(PulledChanges)

\* the batches applyChanges is called with on its own
Batches == SeqsUpTo(DeltaChanges, MaxPageLen) \ { <<>> }

\* response.hasMore ?? false
hasMoreOf(response) ==
  IF "hasMore" \in DOMAIN response THEN response.hasMore ELSE FALSE

\* -------------------------------------------------------------- sync_cursors
\* SELECT cursor FROM sync_cursors WHERE scope_key = ? AND collection_key = ?
\* return result?.cursor ?? DEFAULT_CURSOR
getCursor(db, scope, collectionKey) ==
  IF <<scopeKey(scope), collectionKey>> \in DOMAIN db
  THEN db[<<scopeKey(scope), collectionKey>>].cursor
  ELSE DEFAULT_CURSOR

\* INSERT INTO sync_cursors ... ON CONFLICT(scope_key, collection_key)
\*   DO UPDATE SET cursor = excluded.cursor, updated_at = excluded.updated_at
setCursor_KeepsCursor(db, scope, collectionKey, cursor, t) ==
  LET key == <<scopeKey(scope), collectionKey>>
  IN  [ k \in DOMAIN db \cup {key} |->
          IF k = key THEN [cursor |-> getCursor(db, scope, collectionKey), updated_at |-> t]
          ELSE db[k] ]

setCursor(db, scope, collectionKey, cursor, t) ==
  LET key == <<scopeKey(scope), collectionKey>>
  IN  [ k \in DOMAIN db \cup {key} |->
          IF k = key THEN [cursor |-> cursor, updated_at |-> t] ELSE db[k] ]

\* ------------------------------------------------------ ExampleDeltaHandler
\* INSERT OR REPLACE INTO example_items (id, name, updated_at, created_at)
applyUpsert(items, entityKey, entityId, data, updatedAt) ==
  IF entityKey # "example_items" THEN items
  ELSE [ id \in DOMAIN items \cup {entityId} |->
           IF id = entityId
           THEN [id |-> entityId, name |-> data.name, updated_at |-> updatedAt,
                 created_at |-> updatedAt]
           ELSE items[id] ]

\* DELETE FROM example_items WHERE id = ?
applyDelete(items, entityKey, entityId, updatedAt) ==
  IF entityKey # "example_items" THEN items
  ELSE [ id \in DOMAIN items \ {entityId} |-> items[id] ]

\* applyChangeInternal: upsert -> handler.applyUpsert, delete -> handler.applyDelete
applyChangeInternal(items, change) ==
  IF change.kind = "upsert"
  THEN applyUpsert(items, change.entityKey, change.entityId, change.data, change.updatedAt)
  ELSE applyDelete(items, change.entityKey, change.entityId, change.updatedAt)

\* ---------------------------------------------------- conflict lookups (LIKE)
\* LIKE compares ASCII letters without regard to case
Lower(token) == IF token = quote("E1") THEN quote("e1") ELSE token

\* the pattern `%"id":"${entityId}"%`, without its two wildcards
idPattern(entityId) == << quote("id"), ":", quote(entityId) >>

\* payload_json LIKE '%' || pattern || '%'
like(json, pattern) ==
  \E i \in 1 .. (Len(json) - Len(pattern) + 1) :
    \A j \in 1 .. Len(pattern) : Lower(json[i + j - 1]) = Lower(pattern[j])

\* SELECT COUNT(*) ... WHERE scope_key = ? AND entity_key = ?
\*   AND state IN ('pending', 'in_flight') AND payload_json LIKE ?       (count > 0)
hasPendingOpsForEntity(db, scope, entityKey, entityId) ==
  \E id \in DOMAIN db :
    /\ db[id].scope_key = scopeKey(scope)
    /\ db[id].entity_key = entityKey
    /\ db[id].state \in {"pending", "in_flight"}
    /\ like(db[id].payload_json, idPattern(entityId))

\* ---------------------------------------------------------------- conflicts
Unresolved == <<>>    \* resolved_at IS NULL; a set resolved_at = t is <<t>>

\* JSON.stringify of the data of an upsert, of an example_items row and of the
\* fallback { id: change.entityId }, as token lists
dataJson(data) == << "{", quote("name"), ":", quote(data.name), "}" >>

rowJson(row) ==
  << "{", quote("id"), ":", quote(row.id), ",", quote("name"), ":", quote(row.name), "}" >>

stubJson(entityId) == << "{", quote("id"), ":", quote(entityId), "}" >>

\* SELECT COUNT(*) FROM conflicts
\*  WHERE scope_key = ? AND entity_key = ? AND entity_id = ? AND resolved_at IS NULL
unresolvedFor(cdb, scope, entityKey, entityId) ==
  { id \in DOMAIN cdb :
      /\ cdb[id].scope_key = scopeKey(scope)
      /\ cdb[id].entity_key = entityKey
      /\ cdb[id].entity_id = entityId
      /\ cdb[id].resolved_at = Unresolved }

hasConflict(cdb, scope, entityKey, entityId) ==
  unresolvedFor(cdb, scope, entityKey, entityId) # {}

\* createConflict: the existing unresolved row is updated, else a row is inserted
createConflict_AlwaysInsert(cdb, conflictId, scope, entityKey, entityId, localVersion, remoteVersion, t) ==
  [ id \in DOMAIN cdb \cup {conflictId} |->
      IF id = conflictId
      THEN [ id |-> conflictId, scope_key |-> scopeKey(scope), entity_key |-> entityKey,
             entity_id |-> entityId, local_version_json |-> localVersion,
             remote_version_json |-> remoteVersion, created_at |-> t,
             resolved_at |-> Unresolved ]
      ELSE cdb[id] ]

createConflict(cdb, conflictId, scope, entityKey, entityId, localVersion, remoteVersion, t) ==
  LET existing == unresolvedFor(cdb, scope, entityKey, entityId)
  IN  IF existing # {}
      THEN LET first == CHOOSE id \in existing : TRUE
           IN  [cdb EXCEPT ![first] = [@ EXCEPT !.local_version_json = localVersion,
                                                !.remote_version_json = remoteVersion,
                                                !.created_at = t]]
      ELSE [ id \in DOMAIN cdb \cup {conflictId} |->
               IF id = conflictId
               THEN [ id |-> conflictId, scope_key |-> scopeKey(scope),
                      entity_key |-> entityKey, entity_id |-> entityId,
                      local_version_json |-> localVersion,
                      remote_version_json |-> remoteVersion, created_at |-> t,
                      resolved_at |-> Unresolved ]
               ELSE cdb[id] ]

\* UPDATE conflicts SET resolved_at = ? WHERE id = ?
resolveConflict(cdb, conflictId, t) ==
  [ id \in DOMAIN cdb |->
      IF id = conflictId THEN [cdb[id] EXCEPT !.resolved_at = <<t>>] ELSE cdb[id] ]

\* UPDATE conflicts SET resolved_at = ?
\*  WHERE scope_key = ? AND entity_key = ? AND entity_id = ? AND resolved_at IS NULL
resolveConflictsForEntity(cdb, scope, entityKey, entityId, t) ==
  [ id \in DOMAIN cdb |->
      IF id \in unresolvedFor(cdb, scope, entityKey, entityId)
      THEN [cdb[id] EXCEPT !.resolved_at = <<t>>]
      ELSE cdb[id] ]

\* ------------------------------------------------- DefaultConflictDetector
\* return !hasPending   (deletes: return true)
shouldApplyChange(db, scope, change) ==
  IF change.kind # "upsert" THEN TRUE
  ELSE ~hasPendingOpsForEntity(db, scope, change.entityKey, change.entityId)

\* getLocalVersion: the payload of the latest pending/in_flight op matching the
\* LIKE pattern (in any scope), else the example_items row, else null;
\* onConflictDetected falls back to { id: change.entityId }.  The set of values
\* the lookups may give (rows with equal created_at come in either order).
getLocalVersion(db, items, entityKey, entityId) ==
  LET matching == { id \in DOMAIN db :
                      /\ db[id].entity_key = entityKey
                      /\ db[id].state \in {"pending", "in_flight"}
                      /\ like(db[id].payload_json, idPattern(entityId)) }
      latest == { id \in matching :
                    \A other \in matching : db[id].created_at >= db[other].created_at }
  IN  IF matching # {} THEN { db[id].payload_json : id \in latest }
      ELSE IF entityKey = "example_items" /\ entityId \in DOMAIN items
           THEN { rowJson(items[entityId]) }
           ELSE { stubJson(entityId) }

\* if (conflictExists) return
conflictExists(cdb, scope, change) ==
  hasConflict(cdb, scope, change.entityKey, change.entityId)

\* onConflictDetected: the conflicts tables it may leave
onConflictDetected(cdb, db, items, scope, change, t) ==
  IF change.kind # "upsert" THEN { cdb }
  ELSE IF conflictExists(cdb, scope, change) THEN { cdb }
  ELSE { createConflict(cdb, Cardinality(DOMAIN cdb) + 1, scope, change.entityKey,
                        change.entityId, localVersion, dataJson(change.data), t) :
           localVersion \in getLocalVersion(db, items, change.entityKey, change.entityId) }

\* --------------------------------------------------------------- applyChanges
\* ApplyChangesResult
ApplyResult(applied, conflictCount, errors) ==
  [applied |-> applied, conflicts |-> conflictCount, errors |-> errors]

\* the tables a transaction on the connection covers
Tables == [ example_items |-> example_items, conflicts |-> conflicts,
            outbox_ops |-> outbox_ops, sync_cursors |-> sync_cursors ]

\* withTransaction: ROLLBACK puts back what the tables held at BEGIN
rollback_Keeps(snapshot, current) == current

rollback(snapshot, current) == snapshot

\* options?.conflictDetector && options?.scope && change.kind === 'upsert'
consultsDetector_AnyKind(options, change) ==
  options.conflictDetector # "none" /\ options.scope # NoScope

consultsDetector(options, change) ==
  options.conflictDetector # "none" /\ options.scope # NoScope /\ change.kind = "upsert"

\* what one call inside an iteration may do besides returning: raise
Faults == {"none", "shouldApplyChange", "onConflictDetected", "handler"}

ApplyError(change, message) == [change |-> change, error |-> message]

\* await withTransaction(db, async () => { ... })       (BEGIN)
BeginApply(changes, options) ==
  [ pc |-> "transaction", changes |-> changes, scope |-> options.scope,
    conflictDetector |-> options.conflictDetector, i |-> 1, applied |-> 0,
    conflicts |-> 0, errors |-> <<>>, calls |-> <<>>, snapshot |-> Tables ]

\* calls made for the change at position i: the detector's and the handler's
Call(fn, i) == [fn |-> fn, i |-> i]

\* one iteration of `for (const change of changes)`: the locals and the tables
\* it may leave.  A call that raises leaves the tables as they were.
Iteration(a, fault) ==
  LET change == a.changes[a.i]
      next == [a EXCEPT !.i = a.i + 1]
      asked == consultsDetector(a, change)
      said == Call("shouldApplyChange", a.i)
      told == Call("onConflictDetected", a.i)
      handled == Call(IF change.kind = "upsert" THEN "applyUpsert" ELSE "applyDelete", a.i)
      same == [example_items |-> example_items, conflicts |-> conflicts]
      failed(calls, message) ==
        [ ap |-> [next EXCEPT !.calls = a.calls \o calls,
                              !.errors = Append(a.errors, ApplyError(change, message))],
          tables |-> same ]
  IN  IF asked /\ fault = "shouldApplyChange"
      THEN { failed(<<said>>, "shouldApplyChange failed") }
      ELSE IF asked /\ ~shouldApplyChange(outbox_ops, a.scope, change)
      THEN IF fault = "onConflictDetected"
           THEN { failed(<<said, told>>, "onConflictDetected failed") }
           ELSE { [ ap |-> [next EXCEPT !.calls = a.calls \o <<said, told>>,
                                        !.conflicts = a.conflicts + 1],
                    tables |-> [same EXCEPT !.conflicts = cdb] ] :
                    cdb \in onConflictDetected(conflicts, outbox_ops, example_items,
                                               a.scope, change, now) }
      ELSE LET calls == IF asked THEN <<said, handled>> ELSE <<handled>>
           IN  IF fault = "handler"
               THEN { failed(calls, "handler failed") }
               ELSE { [ ap |-> [next EXCEPT !.calls = a.calls \o calls,
                                            !.applied = a.applied + 1],
                        tables |-> [same EXCEPT !.example_items =
                                      applyChangeInternal(example_items, change)] ] }

AP_Change ==
  /\ ap.pc = "transaction"
  /\ ap.i <= Len(ap.changes)
  /\ \E fault \in Faults : \E out \in Iteration(ap, fault) :
       /\ ap' = out.ap
       /\ example_items' = out.tables.example_items
       /\ conflicts' = out.tables.conflicts
  /\ ret' = NoRet
  /\ UNCHANGED <<outbox_ops, now, procVars, failCount, pushCount, bk, so, sync_cursors, dr>>

\* the loop is over: `if (errors.length > 0) throw`, ROLLBACK or COMMIT, and
\* the result reaches the caller
AP_Return ==
  /\ ap.pc = "transaction"
  /\ ap.i > Len(ap.changes)
  /\ LET failed == Len(ap.errors) > 0
         after == IF failed THEN rollback(ap.snapshot, Tables) ELSE Tables
         result == IF failed THEN ApplyResult(0, ap.conflicts, ap.errors)
                   ELSE ApplyResult(ap.applied, ap.conflicts, ap.errors)
     IN  /\ example_items' = after.example_items
         /\ conflicts' = after.conflicts
         /\ outbox_ops' = after.outbox_ops
         /\ sync_cursors' = after.sync_cursors
         /\ ret' = [call |-> "applyChanges", args |-> <<ap.changes>>, outcome |-> "returned",
                    value |-> result.applied, rows |-> <<>>, result |-> result]
         /\ dr' = IF dr.pc = "applyChanges" THEN [dr EXCEPT !.pc = "applied", !.result = result]
                  ELSE dr
  /\ ap' = NoApply
  /\ UNCHANGED <<now, procVars, failCount, pushCount, bk, so>>

\* applyChanges(changes, handler, options) called on its own
ApplyChanges(changes, options) ==
  /\ ap.pc = "idle"
  /\ dr.pc = "idle"
  /\ ap' = BeginApply(changes, options)
  /\ ret' = NoRet
  /\ UNCHANGED <<outbox_ops, now, procVars, failCount, pushCount, bk, so, sync_cursors, example_items,
                 conflicts, dr>>

\* --------------------------------------------------------------- runDeltaPull
\* while (hasMore && pagesPulled < this.config.maxPagesPerRun)
continues_OneMore(run) == run.hasMore /\ run.pagesPulled <= maxPagesPerRun

continues(run) == run.hasMore /\ run.pagesPulled < maxPagesPerRun

\* if (result.errors.length > 0) { ...; break; }
stopsOnErrors_Never(result) == FALSE

stopsOnErrors(result) == Len(result.errors) > 0

NoResult_Apply == ApplyResult(0, 0, <<>>)

\* let currentCursor = await getCursor(scope, collectionKey)
RunDeltaPull(scope, collectionKey, config) ==
  /\ dr.pc = "idle"
  /\ ap.pc = "idle"
  /\ LET cursor == getCursor(sync_cursors, scope, collectionKey)
     IN  dr' = [ pc |-> "getCursor", scope |-> scope, collectionKey |-> collectionKey,
                 config |-> config, currentCursor |-> cursor, hasMore |-> TRUE,
                 pagesPulled |-> 0, totalChanges |-> 0, totalApplied |-> 0,
                 totalConflicts |-> 0, totalErrors |-> 0,
                 response |-> [changes |-> <<>>, nextCursor |-> cursor],
                 result |-> NoResult_Apply,
                 startCursor |-> cursor, lastGood |-> cursor, calls |-> 0,
                 chained |-> TRUE, earlierMore |-> TRUE, failedPage |-> FALSE ]
  /\ ret' = NoRet
  /\ UNCHANGED <<outbox_ops, now, procVars, failCount, pushCount, bk, sync_cursors, example_items,
                 conflicts, ap>>

\* runDeltaPull is over: its result, or its exception, reaches the caller
DeltaReturn(run, outcome) ==
  /\ dr' = NoRun
  /\ ret' = [ call |-> "runDeltaPull", args |-> <<run.scope, run.collectionKey>>,
              outcome |-> outcome, value |-> run.pagesPulled, rows |-> <<>>,
              result |-> [ pagesPulled |-> run.pagesPulled, totalChanges |-> run.totalChanges,
                           applied |-> run.totalApplied, conflicts |-> run.totalConflicts,
                           errors |-> run.totalErrors ] ]

\* the call of the pull adapter with the current cursor.  Noted for the run:
\* `calls`, the adapter calls made; `chained`, whether every call was handed the
\* cursor the run started from or the nextCursor of the page before;
\* `earlierMore`, whether every page before the latest one had hasMore true.
IssuePull(run) ==
  [run EXCEPT !.pc = "pullChanges",
              !.calls = @ + 1,
              !.chained = @ /\ run.currentCursor =
                                 (IF run.calls = 0 THEN run.startCursor
                                  ELSE run.response.nextCursor),
              !.earlierMore = @ /\ (run.calls = 0 \/ hasMoreOf(run.response))]

\* the top of the loop: after getCursor, and after setCursor where
\*   currentCursor = response.nextCursor; hasMore = response.hasMore ?? false;
\*   if (response.changes.length === 0 && !hasMore) break;
DP_Loop ==
  /\ dr.pc \in {"getCursor", "setCursor"}
  /\ LET run == IF dr.pc = "getCursor" THEN dr
                ELSE [dr EXCEPT !.currentCursor = dr.response.nextCursor,
                                !.hasMore = hasMoreOf(dr.response)]
         breaks == dr.pc = "setCursor" /\ Len(dr.response.changes) = 0 /\ ~run.hasMore
     IN  IF ~breaks /\ continues(run)
         THEN dr' = IssuePull(run) /\ ret' = NoRet
         ELSE DeltaReturn(run, "returned")
  /\ UNCHANGED <<outbox_ops, now, procVars, failCount, pushCount, bk, so, sync_cursors, example_items,
                 conflicts, ap>>

\* Noted for the run once a page is done with: `lastGood`, the nextCursor of the
\* latest page that applied with no error; `failedPage`, whether a page had one.
Pulled(run, response, errorCount) ==
  [run EXCEPT !.lastGood = IF errorCount = 0 THEN response.nextCursor ELSE @,
              !.failedPage = @ \/ errorCount > 0]

\* const response = await this.adapter.pullChanges(scope, collectionKey, currentCursor)
\* the page goes to applyChanges if there is a handler and the page has changes,
\* else its nextCursor is persisted
DP_Response(responses) ==
  /\ dr.pc = "pullChanges"
  /\ \E response \in responses :
       LET run == [dr EXCEPT !.totalChanges = @ + Len(response.changes),
                             !.pagesPulled = @ + 1,
                             !.response = response]
       IN  IF run.config.handler /\ Len(response.changes) > 0
           THEN /\ dr' = [run EXCEPT !.pc = "applyChanges"]
                /\ ap' = BeginApply(response.changes,
                                    [scope |-> run.scope,
                                     conflictDetector |-> run.config.conflictDetector])
                /\ UNCHANGED sync_cursors
           ELSE /\ dr' = [Pulled(run, response, 0) EXCEPT !.pc = "setCursor"]
                /\ sync_cursors' = setCursor(sync_cursors, run.scope, run.collectionKey,
                                             response.nextCursor, now)
                /\ UNCHANGED ap
  /\ ret' = NoRet
  /\ UNCHANGED <<outbox_ops, now, procVars, failCount, pushCount, bk, so, example_items, conflicts>>

\* the pull adapter rejects: runDeltaPull throws
DP_Rejects ==
  /\ dr.pc = "pullChanges"
  /\ DeltaReturn(dr, "threw")
  /\ UNCHANGED <<outbox_ops, now, procVars, failCount, pushCount, bk, so, sync_cursors, example_items,
                 conflicts, ap>>

\* const result = await applyChanges(...): the totals, then `break` on errors,
\* else await setCursor(scope, collectionKey, response.nextCursor)
DP_Applied ==
  /\ dr.pc = "applied"
  /\ LET run == [dr EXCEPT !.totalApplied = @ + dr.result.applied,
                           !.totalConflicts = @ + dr.result.conflicts,
                           !.totalErrors = @ + Len(dr.result.errors)]
         page == Pulled(run, dr.response, Len(dr.result.errors))
     IN  IF stopsOnErrors(dr.result)
         THEN DeltaReturn(page, "returned") /\ UNCHANGED sync_cursors
         ELSE /\ dr' = [page EXCEPT !.pc = "setCursor"]
              /\ sync_cursors' = setCursor(sync_cursors, run.scope, run.collectionKey,
                                           dr.response.nextCursor, now)
              /\ ret' = NoRet
  /\ UNCHANGED <<outbox_ops, now, procVars, failCount, pushCount, bk, so, example_items, conflicts, ap>>

DeltaStep ==
  \/ DP_Loop
  \/ DP_Rejects
  \/ DP_Applied
  \/ AP_Change
  \/ AP_Return

\* ---------------------------------------------------- specification (delta)
\* the configurations a DeltaRunner is constructed with
DeltaConfigs ==
  { [handler |-> FALSE, conflictDetector |-> "none"],
    [handler |-> TRUE, conflictDetector |-> "none"],
    [handler |-> TRUE, conflictDetector |-> "default"] }

\* One DeltaRunner pulling one collection of the active scope, run after run, with
\* ops for entity e1 enqueued between two runs.  Time stands still.
NextDelta ==
  \/ /\ dr.pc = "idle"
     /\ Cardinality(DOMAIN outbox_ops) < MaxDeltaOps
     /\ \E scope \in ActiveScopes : Enqueue(scope, "example_items", x1Payload)
  \/ \E scope \in ActiveScopes, collectionKey \in CollectionKeys, config \in DeltaConfigs :
       RunDeltaPull(scope, collectionKey, config) /\ UNCHANGED so
  \/ DP_Response(PulledResponses)
  \/ DeltaStep

SpecDelta == Init /\ [][NextDelta]_vars

\* ---------------------------------------------------- specification (apply)
\* the options applyChanges is called with
ApplyOptions ==
  { [scope |-> scope, conflictDetector |-> "default"] : scope \in ActiveScopes \cup {NoScope} }
  \cup { [scope |-> scope, conflictDetector |-> "none"] : scope \in ActiveScopes }

\* applyChanges called batch after batch with the example handler, with ops for
\* entity e1 enqueued between two batches.  Time stands still.
NextApply ==
  \/ /\ ap.pc = "idle"
     /\ Cardinality(DOMAIN outbox_ops) < MaxDeltaOps
     /\ \E scope \in ActiveScopes : Enqueue(scope, "example_items", x1Payload)
  \/ \E changes \in Batches, options \in ApplyOptions :
       ApplyChanges(changes, options)
  \/ AP_Change
  \/ AP_Return

SpecApply == Init /\ [][NextApply]_vars

\* ================================================================ conflicts
\* The default detector and the conflicts table used call by call: every call
\* below runs to its end before the next one starts.

\* ------------------------------------------------------------------ bounds
MaxConflictOps == 1   \* rows ever enqueued next to the detector (SpecConflict)
MaxConflicts == 2     \* rows ever inserted into conflicts (SpecConflict)

\* the entity keys ops are enqueued for
EntityKeys == {"example_items", "notes"}

\* the payloads ops are enqueued with: {id: e1}, {id: e2}, {id: E1}, {id: e2, ref: {id: e1}}
ConflictPayloads ==
  { [id |-> x, ref |-> NoRef] : x \in EntityIds } \cup { [id |-> "e2", ref |-> "e1"] }

\* the remote changes the detector is asked about
DetectedChanges ==
  { UpsertChange("example_items", "e1", [name |-> n], 1) : n \in {"a", "b"} }
  \cup { DeleteChange("example_items", "e1", 1) }

\* the versions createConflict is handed when it is called on its own
Versions == { dataJson([name |-> n]) : n \in {"a", "b"} }

\* Outbox.updateState(opId, state) called on its own
UpdateState(opId, state) ==
  /\ opId \in DOMAIN outbox_ops
  /\ outbox_ops[opId].state # state
  /\ outbox_ops' = updateState(outbox_ops, opId, state, NoError, now)
  /\ ret' = NoRet
  /\ UNCHANGED <<now, procVars, failCount, pushCount, bk, extVars>>

\* detector.shouldApplyChange(scope, change)
ShouldApplyChange(scope, change) ==
  /\ ret' = [ call |-> "shouldApplyChange", args |-> <<scope, change>>,
              outcome |-> "returned", value |-> 0, rows |-> <<>>,
              answer |-> shouldApplyChange(outbox_ops, scope, change) ]
  /\ UNCHANGED <<outbox_ops, now, procVars, failCount, pushCount, bk, extVars>>

\* detector.onConflictDetected(scope, change)
OnConflictDetected(scope, change) ==
  /\ conflicts' \in onConflictDetected(conflicts, outbox_ops, example_items, scope, change, now)
  /\ ret' = [ call |-> "onConflictDetected", args |-> <<scope, change>>,
              outcome |-> "returned", value |-> 0, rows |-> <<>> ]
  /\ UNCHANGED <<outbox_ops, now, procVars, failCount, pushCount, bk, so, sync_cursors, example_items,
                 dr, ap>>

\* createConflict(scope, entityKey, entityId, localVersion, remoteVersion): it
\* returns the id it generated, also when it updated the existing row
CreateConflict(scope, entityKey, entityId, localVersion, remoteVersion) ==
  LET conflictId == Cardinality(DOMAIN conflicts) + 1
  IN  /\ conflicts' = createConflict(conflicts, conflictId, scope, entityKey, entityId,
                                     localVersion, remoteVersion, now)
      /\ ret' = [ call |-> "createConflict", args |-> <<scope, entityKey, entityId>>,
                  outcome |-> "returned", value |-> conflictId, rows |-> <<>> ]
      /\ UNCHANGED <<outbox_ops, now, procVars, failCount, pushCount, bk, so, sync_cursors, example_items,
                     dr, ap>>

\* resolveConflict(conflictId)
ResolveConflict(conflictId) ==
  /\ conflictId \in DOMAIN conflicts
  /\ conflicts' = resolveConflict(conflicts, conflictId, now)
  /\ ret' = NoRet
  /\ UNCHANGED <<outbox_ops, now, procVars, failCount, pushCount, bk, so, sync_cursors, example_items,
                 dr, ap>>

\* resolveConflictsForEntity(scope, entityKey, entityId)
ResolveConflictsForEntity(scope, entityKey, entityId) ==
  /\ conflicts' = resolveConflictsForEntity(conflicts, scope, entityKey, entityId, now)
  /\ conflicts' # conflicts
  /\ ret' = NoRet
  /\ UNCHANGED <<outbox_ops, now, procVars, failCount, pushCount, bk, so, sync_cursors, example_items,
                 dr, ap>>

\* ------------------------------------------------- specification (detector)
\* Ops of every scope, entity key and payload are enqueued, claimed and brought
\* to a terminal state, and the default detector is asked about remote changes
\* for entity e1 of the active scope.  Time stands still.
NextDetector ==
  \/ /\ Cardinality(DOMAIN outbox_ops) < MaxConflictOps
     /\ \E scope \in Scopes, entityKey \in EntityKeys, payload \in ConflictPayloads :
          Enqueue(scope, entityKey, payload)
  \/ \E scope \in Scopes : ClaimPending(scope, 1) /\ outbox_ops' # outbox_ops
  \/ \E opId \in DOMAIN outbox_ops, state \in {"succeeded", "failed", "blocked"} :
       UpdateState(opId, state)
  \/ \E scope \in ActiveScopes, change \in DetectedChanges : ShouldApplyChange(scope, change)

SpecDetector == Init /\ [][NextDetector]_vars

\* ------------------------------------------------ specification (conflicts)
\* an insert into conflicts is still within the bound (a call that finds an
\* unresolved row inserts nothing)
MayInsert == Cardinality(DOMAIN conflicts) < MaxConflicts

\* The conflicts table: the detector is told of conflicts for entity e1, with or
\* without a pending op for it, and conflicts are created and resolved directly,
\* one call after another.  The clock moves once.
NextConflict ==
  \/ now = 0 /\ Tick
  \/ /\ Cardinality(DOMAIN outbox_ops) < MaxConflictOps
     /\ \E scope \in ActiveScopes : Enqueue(scope, "example_items", x1Payload)
  \/ \E scope \in ActiveScopes, change \in DetectedChanges :
       /\ MayInsert \/ conflictExists(conflicts, scope, change)
       /\ OnConflictDetected(scope, change)
  \/ \E scope \in ActiveScopes, entityId \in {"e1", "e2"}, remoteVersion \in Versions :
       /\ MayInsert \/ hasConflict(conflicts, scope, "example_items", entityId)
       /\ CreateConflict(scope, "example_items", entityId, stubJson(entityId), remoteVersion)
  \/ \E conflictId \in DOMAIN conflicts : ResolveConflict(conflictId)
  \/ \E scope \in ActiveScopes, entityId \in {"e1", "e2"} :
       ResolveConflictsForEntity(scope, "example_items", entityId)

SpecConflict == Init /\ [][NextConflict]_vars

\* ============================================================= orchestrator
\* SyncOrchestrator with its OutboxProcessor, its DeltaRunner and the sync store.
\* One step is what a call does between two awaits.  A call that awaits
\* processBatch or runDeltaPull goes on in the step after the one in which that
\* call has ended, before anything else happens.

\* ------------------------------------------------------------------ bounds
MaxSyncOps == 1       \* rows ever enqueued next to the orchestrator (SpecSync)

\* ------------------------------------------------------------ configuration
\* SyncOrchestratorConfig.collectionKeys handed to the constructor
collectionKeys == << "example_items" >>

\* the constructor is handed a delta adapter and a signal adapter, and no
\* deltaChangeHandler: the DeltaRunner it builds has no handler and no detector
hasDeltaRunner == TRUE

hasSignalAdapter == TRUE

signalDebounceMs == 2 * TickMs   \* SyncOrchestratorConfig.signalDebounceMs handed to the constructor
runnerConfig == [handler |-> FALSE, conflictDetector |-> "none"]

\* the page the pull adapter answers the orchestrator's runner with: no change,
\* no hasMore
SyncResponses == { [changes |-> <<>>, nextCursor |-> "c1"] }

\* the results the push adapter gives while the orchestrator drains
SyncPushResults ==
  { [status |-> "succeeded"] }
  \cup { [status |-> "failed", retryable |-> TRUE, error |-> e] : e \in Errors }

\* ---------------------------------------------------------------- sync store
\* updateStatus(updates): { ...state.status, ...updates }
updateStatus(s, updates) == [s EXCEPT !.status = updates @@ @]

\* setError(error): lastError = { code, message, at: Date.now() }
setError(s, error, t) ==
  updateStatus(s, [lastError |-> << [code |-> error.code, message |-> error.message,
                                     at |-> t] >>])

\* Outbox.countPending(scope) as refreshPendingCount calls it: -1 stands for the
\* exception it raises without a scope, which refreshPendingCount catches
countPending(db, scope) ==
  IF scope = NoScope THEN -1 ELSE Cardinality(pendingIds(db, scope))

\* get().updateStatus({ pendingOutboxOps: count })
refreshPendingCount(s, count) ==
  IF count < 0 THEN s ELSE updateStatus(s, [pendingOutboxOps |-> count])

\* ------------------------------------------------------- private methods
\* startProcessingLoop(): setInterval unless the timer is armed
startProcessingLoop(s) == [s EXCEPT !.processingInterval = TRUE]

\* stopProcessingLoop(): clearInterval
stopProcessingLoop(s) == [s EXCEPT !.processingInterval = FALSE]

\* clearTimeout(this.signalDebounceTimer) where the handle is set
clearDebounce(s) ==
  IF s.signalDebounceTimer # <<>> THEN s.timers \ {s.signalDebounceTimer[1]} ELSE s.timers

\* detachSignalListener(): the stored unsubscribe ends the attachment it was returned
\* for, the latest one; the pending debounce timer is cleared
detachSignalListener(s) ==
  [s EXCEPT !.signalUnsubscribe = FALSE,
            !.attachments = IF s.signalUnsubscribe THEN SubSeq(@, 1, Len(@) - 1) ELSE @,
            !.timers = clearDebounce(s),
            !.signalDebounceTimer = <<>>,
            !.sinceSignal = <<>>]

\* attachSignalListener(): needs a signal adapter and an active scope; detaches the
\* listener there is, then this.signalUnsubscribe = signalAdapter.attach(activeScope, ...)
attachSignalListener_NoDetach(s) ==
  IF hasSignalAdapter /\ s.activeScope # NoScope
  THEN [s EXCEPT !.signalUnsubscribe = TRUE, !.attachments = Append(@, s.activeScope)]
  ELSE s

attachSignalListener(s) ==
  IF hasSignalAdapter /\ s.activeScope # NoScope
  THEN [detachSignalListener(s) EXCEPT !.signalUnsubscribe = TRUE,
                                       !.attachments = Append(@, s.activeScope)]
  ELSE s

\* the onSignal callback handed to attach: clearTimeout of the pending timer, then
\* this.signalDebounceTimer = setTimeout(..., signalDebounceMs).  A pending timer is
\* kept as the delay it still has to wait and the handle names it by that delay;
\* sinceSignal is the time passed since the latest signal.
onSignal_KeepsTimer(s) ==
  [s EXCEPT !.timers = @ \cup {signalDebounceMs},
            !.signalDebounceTimer = << signalDebounceMs >>,
            !.sinceSignal = << 0 >>]

onSignal(s) ==
  [s EXCEPT !.timers = clearDebounce(s) \cup {signalDebounceMs},
            !.signalDebounceTimer = << signalDebounceMs >>,
            !.sinceSignal = << 0 >>]

\* the entry points whose awaits stand inside try { } catch { setError(...) }
capturesError_Never(fn) == FALSE

capturesError(fn) == fn = "triggerForegroundSync"

\* the poll callback's condition:
\*   isOnline && !status.isSyncing && status.pendingOutboxOps > 0
pollGate_IgnoresSyncing(status, isOnline) == isOnline /\ status.pendingOutboxOps > 0

pollGate(status, isOnline) ==
  isOnline /\ ~status.isSyncing /\ status.pendingOutboxOps > 0

\* a return of an entry point of the orchestrator
SyncRet(fn, outcome) ==
  [call |-> fn, args |-> <<>>, outcome |-> outcome, value |-> 0, rows |-> <<>>]

\* what a step of the orchestrator that calls neither processBatch nor
\* runDeltaPull leaves alone
Aside ==
  UNCHANGED <<outbox_ops, now, procVars, failCount, pushCount, bk, sync_cursors, example_items,
              conflicts, dr, ap>>

\* the call `who` is over
Ends(s, who, outcome) ==
  /\ so' = [s EXCEPT ![who] = NoTask]
  /\ ret' = SyncRet(s[who].fn, outcome)
  /\ Aside

\* an exception reaches the entry point of `who`: triggerForegroundSync's catch
\* does setError and updateStatus({ isSyncing: false }); elsewhere it leaves the call
Throws(s, who, message) ==
  IF capturesError(s[who].fn)
  THEN Ends(updateStatus(setError(s, [code |-> "sync_error", message |-> message], now),
                         [isSyncing |-> FALSE]),
            who, "returned")
  ELSE Ends(s, who, "threw")

\* status.updateStatus({ isSyncing: false, lastSyncAt: Date.now() })
\* await status.refreshPendingCount(this.activeScope)
Finish(s) ==
  /\ so' = [updateStatus(s, [isSyncing |-> FALSE, lastSyncAt |-> <<now>>])
              EXCEPT !.app.pc = "refreshPendingCount",
                     !.app.count = countPending(outbox_ops, s.activeScope)]
  /\ ret' = NoRet
  /\ Aside

\* this.runDeltaPull(): without scope, runner or collection keys, or offline, it
\* returns; else await this.deltaRunner.runDeltaPullForCollections(...)
pullsDeltas(s) ==
  /\ s.activeScope # NoScope
  /\ hasDeltaRunner
  /\ Len(collectionKeys) > 0
  /\ s.online

\* the pull phase of triggerForegroundSync
PullPhase(s) ==
  IF pullsDeltas(s)
  THEN /\ RunDeltaPull(s.activeScope, collectionKeys[1], runnerConfig)
       /\ so' = [s EXCEPT !.app.pc = "runDeltaPull"]
  ELSE Finish(s)

\* processOutbox has returned to its caller
AfterDrain(s, who) ==
  IF s[who].fn = "triggerForegroundSync" THEN PullPhase(s) ELSE Ends(s, who, "returned")

\* processed = await this.processor.processBatch(this.activeScope): a busy
\* processor answers 0 at once and the call goes on to
\* await store.refreshPendingCount(this.activeScope)
CallProcessBatch(s, who) ==
  \/ /\ ProcessBatchBusy(s.activeScope)
     /\ so' = [s EXCEPT ![who].pc = "refreshPendingCount in processOutbox",
                        ![who].processed = 0,
                        ![who].count = countPending(outbox_ops, s.activeScope)]
  \/ /\ s.activeScope # NoScope
     /\ ProcessBatch(s.activeScope)
     /\ so' = [s EXCEPT ![who].pc = "processBatch"]
  \/ /\ s.activeScope = NoScope
     /\ ProcessBatchNoScope
     /\ so' = [s EXCEPT ![who].pc = "processBatch"]

\* processOutbox(), up to its first await
ProcessOutbox(s, who) ==
  IF s.activeScope = NoScope \/ ~s.online
  THEN AfterDrain(s, who)
  ELSE LET wasSyncing == s.status.isSyncing
           syncing == IF wasSyncing THEN s ELSE updateStatus(s, [isSyncing |-> TRUE])
       IN  CallProcessBatch([syncing EXCEPT ![who].wasSyncing = wasSyncing,
                                            ![who].scope = s.activeScope], who)

\* } finally { if (!wasSyncing) store.updateStatus({ isSyncing: false }) }
finallyOfDrain(s, who) ==
  IF s[who].wasSyncing THEN s ELSE updateStatus(s, [isSyncing |-> FALSE])

\* ----------------------------------------------------------- entry points
\* start()
Start ==
  /\ ~so.isStarted
  /\ LET started == [so EXCEPT !.isStarted = TRUE,
                               !.networkStatusUnsubscribe = TRUE,
                               !.appStateSubscription = TRUE,
                               !.status.isOnline = so.online]
     IN  so' = IF so.activeScope # NoScope
               THEN attachSignalListener(startProcessingLoop(started))
               ELSE started
  /\ ret' = NoRet
  /\ Aside

\* startScopeSync(scope), up to await refreshPendingCount(scope)
BeginScopeSync(scope) ==
  /\ so.app.pc = "idle"
  /\ so' = [detachSignalListener(so) EXCEPT
              !.activeScope = scope,
              !.app = [NoTask EXCEPT !.fn = "startScopeSync", !.pc = "refreshPendingCount",
                                     !.count = countPending(outbox_ops, scope)]]
  /\ ret' = NoRet
  /\ Aside

\* startScopeSync(scope) called while no scope is active
StartScopeSync(scope) == so.activeScope = NoScope /\ BeginScopeSync(scope)

\* startScopeSync after its refreshPendingCount: the loop and the listener if
\* started, then the initial delta catch-up
SS_Refreshed ==
  /\ so.app.fn = "startScopeSync"
  /\ so.app.pc = "refreshPendingCount"
  /\ LET counted == refreshPendingCount(so, so.app.count)
         looping == IF counted.isStarted
                    THEN attachSignalListener(startProcessingLoop(counted))
                    ELSE counted
     IN  IF pullsDeltas(looping)
         THEN /\ RunDeltaPull(looping.activeScope, collectionKeys[1], runnerConfig)
              /\ so' = [looping EXCEPT !.app.pc = "runDeltaPull"]
         ELSE Ends(looping, "app", "returned")

\* stopScopeSync()
stopScopeSync(s) == stopProcessingLoop([detachSignalListener(s) EXCEPT !.activeScope = NoScope])

\* stopScopeSync() called between two calls, with a scope active
StopScopeSync ==
  /\ so.activeScope # NoScope
  /\ so.app.pc = "idle"
  /\ so.poll.pc = "idle"
  /\ so' = stopScopeSync(so)
  /\ ret' = NoRet
  /\ Aside

\* stopScopeSync() called at any time
StopScopeSyncNow ==
  /\ so' = stopScopeSync(so)
  /\ so' # so
  /\ ret' = NoRet
  /\ Aside

\* stop()
Stop ==
  /\ so.isStarted
  /\ so' = [detachSignalListener(stopProcessingLoop([so EXCEPT !.isStarted = FALSE]))
              EXCEPT !.networkStatusUnsubscribe = FALSE, !.appStateSubscription = FALSE]
  /\ ret' = NoRet
  /\ Aside

\* triggerForegroundSync(), up to its first await, in an orchestrator `s`
ForegroundSync(s) ==
  IF s.activeScope = NoScope
  THEN /\ so' = s
       /\ ret' = SyncRet("triggerForegroundSync", "returned")
       /\ Aside
  ELSE ProcessOutbox([updateStatus(s, [isSyncing |-> TRUE]) EXCEPT
                        !.app = [NoTask EXCEPT !.fn = "triggerForegroundSync"]],
                     "app")

\* triggerForegroundSync() called by the app
TriggerForegroundSync ==
  /\ so.app.pc = "idle"
  /\ ForegroundSync(so)

\* handleAppStateChange(nextAppState)
HandleAppStateChange(nextAppState) ==
  /\ so.appStateSubscription
  /\ IF nextAppState \in {"background", "inactive"}
     THEN /\ ~so.isPaused
          /\ so' = detachSignalListener([so EXCEPT !.isPaused = TRUE])
          /\ ret' = NoRet
          /\ Aside
     ELSE /\ so.isPaused
          /\ so.app.pc = "idle"
          /\ LET resumed == [so EXCEPT !.isPaused = FALSE]
             IN  IF resumed.activeScope # NoScope
                 THEN ForegroundSync(attachSignalListener(resumed))
                 ELSE so' = resumed /\ ret' = NoRet /\ Aside

\* the network goes online or offline: getNetworkStatus() changes and the
\* subscription made by start() does updateStatus({ isOnline })
NetworkStatus(isOnline) ==
  /\ so.online # isOnline
  /\ so' = IF so.networkStatusUnsubscribe
           THEN updateStatus([so EXCEPT !.online = isOnline], [isOnline |-> isOnline])
           ELSE [so EXCEPT !.online = isOnline]
  /\ ret' = NoRet
  /\ Aside

\* the callback of setInterval
PollTick ==
  /\ so.processingInterval
  /\ IF so.activeScope = NoScope \/ so.isPaused
     THEN so' = so /\ ret' = SyncRet("poll", "skipped") /\ Aside
     ELSE LET status == so.status
              isOnline == so.online
              seen == IF status.isOnline # isOnline
                      THEN updateStatus(so, [isOnline |-> isOnline])
                      ELSE so
          IN  IF pollGate(status, isOnline)
              THEN /\ so.poll.pc = "idle"
                   /\ ProcessOutbox([seen EXCEPT !.poll = [NoTask EXCEPT !.fn = "poll"]],
                                    "poll")
              ELSE so' = seen /\ ret' = SyncRet("poll", "skipped") /\ Aside

\* ------------------------------------------------------- the calls go on
\* processBatch or runDeltaPull has ended and its caller has not gone on yet
Returned ==
  /\ ret.call \in {"processBatch", "runDeltaPull"}
  /\ ret.outcome \in {"returned", "threw"}

\* processBatch has ended: an exception passes the finally of processOutbox;
\* a count goes to `processed` and await store.refreshPendingCount(this.activeScope)
SY_Processed(who) ==
  /\ ret.call = "processBatch"
  /\ ret.outcome \in {"returned", "threw"}
  /\ so[who].pc = "processBatch"
  /\ IF ret.outcome = "threw"
     THEN Throws(finallyOfDrain(so, who), who, "pushOps rejected")
     ELSE /\ so' = [so EXCEPT ![who].pc = "refreshPendingCount in processOutbox",
                              ![who].processed = ret.value,
                              ![who].count = countPending(outbox_ops, so.activeScope)]
          /\ ret' = NoRet
          /\ Aside

\* refreshPendingCount of the loop has resolved: } while (processed > 0)
SY_Counted(who) ==
  /\ so[who].pc = "refreshPendingCount in processOutbox"
  /\ LET counted == refreshPendingCount(so, so[who].count)
     IN  IF so[who].processed > 0
         THEN CallProcessBatch(counted, who)
         ELSE AfterDrain([finallyOfDrain(counted, who) EXCEPT ![who].drained = TRUE], who)

\* runDeltaPullForCollections has ended
SY_Pulled ==
  /\ ret.call = "runDeltaPull"
  /\ ret.outcome \in {"returned", "threw"}
  /\ so.app.pc = "runDeltaPull"
  /\ IF ret.outcome = "threw"
     THEN Throws(so, "app", "pullChanges rejected")
     ELSE IF so.app.fn = "triggerForegroundSync"
          THEN Finish(so)
          ELSE Ends(so, "app", "returned")

\* the debounce callback's condition: !this.isPaused && this.activeScope
debounceGate_IgnoresPause(s) == s.activeScope # NoScope

debounceGate(s) == ~s.isPaused /\ s.activeScope # NoScope

\* the signal adapter notifies the listener attached
Signal ==
  /\ Len(so.attachments) > 0
  /\ so' = onSignal(so)
  /\ ret' = NoRet
  /\ Aside

\* the callback of the debounce timer, run when its delay is over:
\*   if (!this.isPaused && this.activeScope) this.runDeltaPull().catch(...)
\*   this.signalDebounceTimer = null
DebounceFires ==
  \E delay \in so.timers :
    /\ delay = 0
    /\ LET fired == [so EXCEPT !.timers = @ \ {delay}, !.signalDebounceTimer = <<>>,
                               !.sinceSignal = <<>>]
       IN  IF debounceGate(so) /\ pullsDeltas(fired)
           THEN /\ so.sig.pc = "idle"
                /\ RunDeltaPull(fired.activeScope, collectionKeys[1], runnerConfig)
                /\ so' = [fired EXCEPT !.sig = [NoTask EXCEPT !.fn = "signal",
                                                              !.pc = "runDeltaPull"]]
           ELSE so' = fired /\ ret' = SyncRet("signal", "skipped") /\ Aside

\* the runDeltaPull of the debounce callback has ended: .catch does setError
SY_SignalPulled ==
  /\ ret.call = "runDeltaPull"
  /\ ret.outcome \in {"returned", "threw"}
  /\ so.sig.pc = "runDeltaPull"
  /\ LET s == IF ret.outcome = "threw"
              THEN setError(so, [code |-> "signal_sync_error",
                                 message |-> "pullChanges rejected"], now)
              ELSE so
     IN  Ends(s, "sig", "returned")

\* TickMs pass while a debounce timer is pending: every pending timer has that
\* much less to wait, and a timer's callback runs when its delay is over.  The
\* timestamps the stores write are not followed here: Date.now() keeps its value.
SignalTick ==
  /\ so.timers # {}
  /\ \A delay \in so.timers : delay > 0
  /\ so' = [so EXCEPT !.timers = { delay - TickMs : delay \in @ },
                       !.signalDebounceTimer =
                          IF @ = <<>> THEN @ ELSE << @[1] - TickMs >>,
                       !.sinceSignal = IF @ = <<>> THEN @ ELSE << @[1] + TickMs >>]
  /\ ret' = NoRet
  /\ Aside

\* the last refreshPendingCount of triggerForegroundSync has resolved
SY_Refreshed ==
  /\ so.app.fn = "triggerForegroundSync"
  /\ so.app.pc = "refreshPendingCount"
  /\ Ends(refreshPendingCount(so, so.app.count), "app", "returned")

\* ------------------------------------------ specification (orchestrator)
\* One orchestrator with one scope.  The app starts it, starts and stops the
\* scope's sync, goes to the background and comes back, and triggers foreground
\* syncs, one call of the app at a time; the network comes and goes; the poll
\* timer fires at any time (a tick that finds its condition true comes when the
\* callback of an earlier tick has ended).  The scope's sync is stopped between
\* two calls.  The push adapter answers with a result per op, succeeded or failed
\* and retryable, or rejects; the pull adapter answers with an empty last page or
\* rejects.  Time stands still.
NextSync ==
  \/ SY_Processed("app")
  \/ SY_Processed("poll")
  \/ SY_Pulled
  \/ ~Returned /\ Cardinality(DOMAIN outbox_ops) < MaxSyncOps
       /\ \E scope \in ActiveScopes : Enqueue(scope, "example_items", x1Payload)
  \/ ~Returned /\ Start
  \/ ~Returned /\ \E scope \in ActiveScopes : StartScopeSync(scope)
  \/ ~Returned /\ SS_Refreshed
  \/ ~Returned /\ StopScopeSync
  \/ ~Returned /\ TriggerForegroundSync
  \/ ~Returned /\ \E nextAppState \in {"background", "active"} :
       HandleAppStateChange(nextAppState)
  \/ ~Returned /\ \E isOnline \in BOOLEAN : NetworkStatus(isOnline)
  \/ ~Returned /\ PollTick
  \/ ~Returned /\ SY_Counted("app")
  \/ ~Returned /\ SY_Counted("poll")
  \/ ~Returned /\ SY_Refreshed
  \/ ~Returned /\ Step /\ \A id \in DOMAIN resultsById' : resultsById'[id] \in SyncPushResults
  \/ ~Returned /\ DP_Loop
  \/ ~Returned /\ DP_Response(SyncResponses)
  \/ ~Returned /\ DP_Rejects

SpecSync == Init /\ [][NextSync]_vars

\* The processor with ops enqueued both without and with a key of the caller's, and
\* an adapter that answers `succeeded` or a retryable failure, leaves a result out,
\* or rejects.
KeyOptions ==
  { [scope |-> scope, entityKey |-> "example_items", opType |-> "upsert",
     payload |-> x1Payload, idempotencyKey |-> key] :
       scope \in ActiveScopes, key \in {NoKey, << "k1" >>} }

NextKey ==
  \/ pc \in {"idle", "pushOps"} /\ Tick
  \/ Cardinality(DOMAIN outbox_ops) < MaxOps
       /\ \E options \in KeyOptions : EnqueueOptions(options)
  \/ \E scope \in ActiveScopes : ProcessBatchBusy(scope) /\ UNCHANGED so
  \/ \E scope \in ActiveScopes : ProcessBatch(scope) /\ UNCHANGED so
  \/ Step /\ \A id \in DOMAIN resultsById' :
               resultsById'[id] \in SyncPushResults \cup {NoResult}

SpecKey == Init /\ [][NextKey]_vars

\* The processor called with more ops waiting than one batch takes: ops are enqueued
\* between two batches, one processBatch runs at a time.
NextBatch ==
  \/ pc = "idle" /\ Tick
  \/ pc = "idle" /\ Cardinality(DOMAIN outbox_ops) < MaxBatchOps
       /\ \E scope \in ActiveScopes : Enqueue(scope, "example_items", x1Payload)
  \/ \E scope \in ActiveScopes : ProcessBatch(scope) /\ UNCHANGED so
  \/ Step

SpecBatch == Init /\ [][NextBatch]_vars

\* The orchestrator driven by its poll timer alone: the app starts it and starts the
\* scope's sync, ops are enqueued at any time, and nothing else is called; the app
\* stays in the foreground and the network online.  The push adapter answers every
\* op with a result that ends it (succeeded, failed and not retryable, or blocked),
\* the pull adapter with an empty last page.  The timer keeps firing and every
\* promise a call awaits resolves: the callback and the continuations are taken
\* whenever they stay possible.
PollPushResults ==
  { [status |-> "succeeded"], [status |-> "blocked", reason |-> "auth required"] }
  \cup { [status |-> "failed", retryable |-> FALSE, error |-> e] : e \in Errors }

PollTimerFires == ~Returned /\ PollTick

PollContinues ==
  \/ SY_Processed("poll")
  \/ SY_Pulled
  \/ ~Returned /\ SS_Refreshed
  \/ ~Returned /\ SY_Counted("poll")
  \/ ~Returned /\ PB_GetPending
  \/ ~Returned /\ PB_SplitExhausted
  \/ ~Returned /\ PB_PushOps
  \/ ~Returned /\ PB_Results
       /\ \A id \in DOMAIN resultsById' : resultsById'[id] \in PollPushResults
  \/ ~Returned /\ PB_NextOp
  \/ ~Returned /\ DP_Loop
  \/ ~Returned /\ DP_Response(SyncResponses)

NextPoll ==
  \/ ~Returned /\ Cardinality(DOMAIN outbox_ops) < MaxSyncOps
       /\ \E scope \in ActiveScopes : Enqueue(scope, "example_items", x1Payload)
  \/ ~Returned /\ Start
  \/ ~Returned /\ \E scope \in ActiveScopes : StartScopeSync(scope)
  \/ PollTimerFires
  \/ PollContinues

SpecPoll ==
  Init /\ [][NextPoll]_vars /\ WF_vars(PollTimerFires) /\ WF_vars(PollContinues)

\* The lifecycle of one orchestrator with two scopes and an empty outbox.  The app
\* starts and stops it, starts the sync of a scope (also while another scope is
\* active), stops it, goes to the background and comes back; stop() is called at any
\* time, stopScopeSync() also while a startScopeSync is awaiting, and a scope is
\* started or stopped when no drain is under way.  The signal adapter notifies the
\* listener attached at any time and the poll timer fires at any time.  Time stands
\* still, so that a debounce timer that is not cleared stays pending.
NextLife ==
  \/ SY_Processed("app")
  \/ SY_Pulled
  \/ ~Returned /\ Start
  \/ ~Returned /\ Stop
  \/ ~Returned /\ so.poll.pc = "idle" /\ \E scope \in Scopes : BeginScopeSync(scope)
  \/ ~Returned /\ SS_Refreshed
  \/ ~Returned /\ so.poll.pc = "idle" /\ so.app.fn \in {"none", "startScopeSync"}
       /\ StopScopeSyncNow
  \/ ~Returned /\ \E nextAppState \in {"background", "active"} :
       HandleAppStateChange(nextAppState)
  \/ ~Returned /\ PollTick
  \/ ~Returned /\ Signal
  \/ ~Returned /\ SY_Counted("app")
  \/ ~Returned /\ SY_Refreshed
  \/ ~Returned /\ PB_GetPending
  \/ ~Returned /\ PB_SplitExhausted
  \/ ~Returned /\ DP_Loop
  \/ ~Returned /\ DP_Response(SyncResponses)
  \/ ~Returned /\ DP_Rejects

SpecLife == Init /\ [][NextLife]_vars

\* Signals and pauses: one orchestrator with one scope and at most MaxSyncOps ops,
\* enqueued before it is started.  The app starts and stops it, starts and stops
\* the scope's sync between two calls, goes to the background and comes back; the
\* signal adapter notifies the listener attached at any time, the network comes and
\* goes, the poll timer fires at any time.  Time passes in steps of half the
\* debounce delay; the debounce callback runs when its delay is over, once a pull
\* that is under way has ended.  The push adapter answers `succeeded`, the pull
\* adapter answers with an empty last page.
NextSignal ==
  \/ SY_Processed("app")
  \/ SY_Processed("poll")
  \/ SY_Pulled
  \/ SY_SignalPulled
  \/ ~Returned /\ ~so.isStarted /\ so.activeScope = NoScope
       /\ Cardinality(DOMAIN outbox_ops) < MaxSyncOps
       /\ \E scope \in ActiveScopes : Enqueue(scope, "example_items", x1Payload)
  \/ ~Returned /\ Start
  \/ ~Returned /\ Stop
  \/ ~Returned /\ so.poll.pc = "idle" /\ so.sig.pc = "idle"
       /\ \E scope \in ActiveScopes : BeginScopeSync(scope)
  \/ ~Returned /\ SS_Refreshed
  \/ ~Returned /\ so.sig.pc = "idle" /\ StopScopeSync
  \/ ~Returned /\ \E nextAppState \in {"background", "active"} :
       HandleAppStateChange(nextAppState)
  \/ ~Returned /\ \E isOnline \in BOOLEAN : NetworkStatus(isOnline)
  \/ ~Returned /\ PollTick
  \/ ~Returned /\ Signal
  \/ ~Returned /\ DebounceFires
  \/ ~Returned /\ SignalTick
  \/ ~Returned /\ SY_Counted("app")
  \/ ~Returned /\ SY_Counted("poll")
  \/ ~Returned /\ SY_Refreshed
  \/ ~Returned /\ PB_GetPending
  \/ ~Returned /\ PB_SplitExhausted
  \/ ~Returned /\ PB_PushOps
  \/ ~Returned /\ PB_Results
       /\ \A id \in DOMAIN resultsById' : resultsById'[id].status = "succeeded"
  \/ ~Returned /\ PB_NextOp
  \/ ~Returned /\ DP_Loop
  \/ ~Returned /\ DP_Response(SyncResponses)

SpecSignal == Init /\ [][NextSignal]_vars

\* The processor with more ops waiting in one scope than a batch takes, enqueued one
\* after another between two batches, and an adapter that gives any result for an
\* op, or leaves its result out, and never rejects.  No two ops are
\* enqueued in the same millisecond.  Time passes in short steps only: no lease
\* goes stale.
NextFifo ==
  \/ pc \in {"idle", "pushOps"} /\ Tick /\ now' = now + TickMs
  \/ pc = "idle" /\ Cardinality(DOMAIN outbox_ops) < MaxBatchOps
       /\ (\A id \in DOMAIN outbox_ops : outbox_ops[id].created_at < now)
       /\ \E scope \in ActiveScopes : Enqueue(scope, "example_items", x1Payload)
  \/ \E scope \in ActiveScopes : ProcessBatch(scope) /\ UNCHANGED so
  \/ Step /\ ret'.outcome # "threw"

SpecFifo == Init /\ [][NextFifo]_vars

\* The processor with an adapter that may reject: ops are enqueued one after another
\* between two batches, the adapter gives any result for an op, leaves its result
\* out, or rejects the call, and time passes between two batches, in short steps
\* and in one long step that takes the leases there are past the staleness
\* threshold.  Nothing but processBatch claims.
NextLease ==
  \/ pc = "idle" /\ Tick
  \/ pc = "idle" /\ Cardinality(DOMAIN outbox_ops) < MaxOps
       /\ (\A id \in DOMAIN outbox_ops : outbox_ops[id].created_at < now)
       /\ \E scope \in ActiveScopes : Enqueue(scope, "example_items", x1Payload)
  \/ \E scope \in ActiveScopes : ProcessBatch(scope) /\ UNCHANGED so
  \/ Step

SpecLease == Init /\ [][NextLease]_vars

\* The queue and the processor used for two scopes: one op is enqueued for either
\* scope before the clock moves, processBatch is called for either, and between two
\* batches claimPending, resetStaleInFlight and deleteSucceeded (with and without
\* olderThanMs) are called for either; the adapter answers `succeeded` or leaves a
\* result out.  Time passes between two batches.  A call that leaves the table as it is is not
\* taken as a step.
NextScopes ==
  \/ pc = "idle" /\ Tick
  \/ pc = "idle" /\ now = 0
       /\ \E scope \in Scopes :
            /\ Cardinality(DOMAIN failCount) < Cardinality(Scopes)
            /\ \A id \in DOMAIN outbox_ops : outbox_ops[id].scope_key # scopeKey(scope)
            /\ Enqueue(scope, "example_items", x1Payload)
  \/ \E scope \in Scopes : ProcessBatch(scope) /\ UNCHANGED so
  \/ /\ Step
     /\ ret'.outcome # "threw"
     /\ \A id \in DOMAIN resultsById' : resultsById'[id] \in {[status |-> "succeeded"], NoResult}
  \/ \E scope \in Scopes : pc = "idle" /\ ResetStaleInFlight(scope)
  \/ \E scope \in Scopes, limit \in 1..MaxLimit :
       pc = "idle" /\ ClaimPending(scope, limit) /\ outbox_ops' # outbox_ops
  \/ \E scope \in Scopes, olderThanMs \in {0, TickMs} :
       pc = "idle" /\ DeleteSucceeded(scope, olderThanMs) /\ outbox_ops' # outbox_ops

SpecScopes == Init /\ [][NextScopes]_vars

\* ------------------------------------------ specification (overlapping pulls)
\* the cursors of the pull adapter's page sequence, in order: page n leads from
\* the cursor at position n to the cursor at position n + 1
PageSequence == << DEFAULT_CURSOR, "c1", "c2" >>

\* the position of a cursor in the page sequence
CursorIndex(cursor) == CHOOSE n \in DOMAIN PageSequence : PageSequence[n] = cursor

\* the remote change delivered by page n
FeedChange(n) ==
  UpsertChange("example_items", IF n = 1 THEN "e1" ELSE "e2", [name |-> "a"], n)

\* adapter.pullChanges(scope, collectionKey, cursor) of an adapter that serves
\* the page after `cursor`, and an empty page with the same cursor after the last
PageAfter(cursor) ==
  LET n == CursorIndex(cursor)
  IN  IF n < Len(PageSequence)
      THEN { [ changes |-> << FeedChange(n) >>, nextCursor |-> PageSequence[n + 1],
               hasMore |-> n + 1 < Len(PageSequence) ] }
      ELSE { [ changes |-> <<>>, nextCursor |-> cursor ] }

\* the call of the orchestrator that awaits the runDeltaPull in dr
Pulling(s) ==
  IF s.waiting # <<>> THEN (IF s.waiting[1].owner = "app" THEN "sig" ELSE "app")
  ELSE IF s.app.pc = "runDeltaPull" THEN "app" ELSE "sig"

\* the runDeltaPull in dr stands at an await (of the store or of the pull adapter)
\* and the event loop turns to other callbacks
Suspend ==
  /\ dr.pc \in {"getCursor", "pullChanges", "setCursor"}
  /\ so.waiting = <<>>
  /\ so' = [so EXCEPT !.waiting = << [owner |-> Pulling(so), run |-> dr] >>]
  /\ dr' = NoRun
  /\ ret' = NoRet
  /\ UNCHANGED <<outbox_ops, now, procVars, failCount, pushCount, bk, sync_cursors, example_items,
                 conflicts, ap>>

\* the await of the waiting runDeltaPull resolves and the run goes on
Resume ==
  /\ dr.pc = "idle"
  /\ so.waiting # <<>>
  /\ dr' = so.waiting[1].run
  /\ so' = [so EXCEPT !.waiting = <<>>]
  /\ ret' = NoRet
  /\ UNCHANGED <<outbox_ops, now, procVars, failCount, pushCount, bk, sync_cursors, example_items,
                 conflicts, ap>>

\* the await of the waiting runDeltaPull resolves while the one in dr stands at an
\* await: the waiting run goes on and the other one waits
Switch ==
  /\ dr.pc \in {"getCursor", "pullChanges", "setCursor"}
  /\ so.waiting # <<>>
  /\ dr' = so.waiting[1].run
  /\ so' = [so EXCEPT !.waiting = << [owner |-> Pulling(so), run |-> dr] >>]
  /\ ret' = NoRet
  /\ UNCHANGED <<outbox_ops, now, procVars, failCount, pushCount, bk, sync_cursors, example_items,
                 conflicts, ap>>

\* the runDeltaPull that has ended is the one the call `who` awaits
EndedFor(who) == IF so.waiting = <<>> THEN TRUE ELSE so.waiting[1].owner # who

\* One started orchestrator with an empty outbox and one scope, whose sync the app
\* starts; the app goes to the background and comes back and calls
\* triggerForegroundSync, the signal adapter notifies the listener and the debounce
\* timer runs out, also while a runDeltaPull of another call stands at an await.
\* The pull adapter serves its page sequence by cursor and never rejects.
NextPulls ==
  \/ EndedFor("sig") /\ SY_Pulled
  \/ EndedFor("app") /\ SY_SignalPulled
  \/ SY_Processed("app")
  \/ ~Returned /\ Start
  \/ ~Returned /\ so.isStarted /\ so.waiting = <<>> /\ so.sig.pc = "idle"
       /\ \E scope \in ActiveScopes : StartScopeSync(scope)
  \/ ~Returned /\ SS_Refreshed
  \/ ~Returned /\ TriggerForegroundSync
  \/ ~Returned /\ \E nextAppState \in {"background", "active"} :
       HandleAppStateChange(nextAppState)
  \/ ~Returned /\ Signal
  \/ ~Returned /\ DebounceFires
  \/ ~Returned /\ SignalTick
  \/ ~Returned /\ SY_Counted("app")
  \/ ~Returned /\ SY_Refreshed
  \/ ~Returned /\ PB_GetPending
  \/ ~Returned /\ PB_SplitExhausted
  \/ ~Returned /\ DP_Loop
  \/ ~Returned /\ dr.pc = "pullChanges" /\ DP_Response(PageAfter(dr.currentCursor))
  \/ ~Returned /\ Suspend
  \/ ~Returned /\ Resume
  \/ ~Returned /\ Switch

SpecPulls == Init /\ [][NextPulls]_vars

\* ------------------------------------------------ specification (page feed)
\* One DeltaRunner with the example handler, with or without the default detector,
\* pulling the collection of the active scope run after run from an adapter that
\* serves its page sequence by cursor.  Between two runs an op for entity e1 is
\* enqueued, and the op is pushed (its state becomes succeeded).  A call made for a
\* change may raise.  Time stands still.
NextFeed ==
  \/ /\ dr.pc = "idle"
     /\ Cardinality(DOMAIN outbox_ops) < MaxDeltaOps
     /\ \E scope \in ActiveScopes : Enqueue(scope, "example_items", x1Payload)
  \/ /\ dr.pc = "idle"
     /\ \E opId \in DOMAIN outbox_ops : UpdateState(opId, "succeeded")
  \/ \E scope \in ActiveScopes, collectionKey \in CollectionKeys, config \in DeltaConfigs :
       config.handler /\ RunDeltaPull(scope, collectionKey, config) /\ UNCHANGED so
  \/ dr.pc = "pullChanges" /\ DP_Response(PageAfter(dr.currentCursor))
  \/ DP_Loop
  \/ DP_Rejects
  \/ DP_Applied
  \/ AP_Change
  \/ AP_Return

SpecFeed == Init /\ [][NextFeed]_vars

\* ------------------------------------------------ specification (scope changes)
\* One started orchestrator with at most MaxSyncOps ops, enqueued before its first
\* scope is started.  The app starts the sync of either scope and stops it at any
\* time, also while a drain awaits; it calls triggerForegroundSync and the poll
\* timer fires.  The push adapter answers `succeeded` for every op, the pull adapter
\* answers with an empty last page, and neither rejects.  Time stands still.
NextDrain ==
  \/ SY_Processed("app")
  \/ SY_Processed("poll")
  \/ SY_Pulled
  \/ ~Returned /\ ~so.isStarted /\ Cardinality(DOMAIN outbox_ops) < MaxSyncOps
       /\ \E scope \in ActiveScopes : Enqueue(scope, "example_items", x1Payload)
  \/ ~Returned /\ Start
  \/ ~Returned /\ so.isStarted /\ \E scope \in Scopes : BeginScopeSync(scope)
  \/ ~Returned /\ SS_Refreshed
  \/ ~Returned /\ StopScopeSyncNow
  \/ ~Returned /\ TriggerForegroundSync
  \/ ~Returned /\ PollTick
  \/ ~Returned /\ SY_Counted("app")
  \/ ~Returned /\ SY_Counted("poll")
  \/ ~Returned /\ SY_Refreshed
  \/ ~Returned /\ PB_GetPending
  \/ ~Returned /\ PB_SplitExhausted
  \/ ~Returned /\ PB_PushOps
  \/ ~Returned /\ PB_Results
       /\ \A id \in DOMAIN resultsById' : resultsById'[id] = [status |-> "succeeded"]
  \/ ~Returned /\ PB_NextOp
  \/ ~Returned /\ DP_Loop
  \/ ~Returned /\ DP_Response(SyncResponses)

SpecDrain == Init /\ [][NextDrain]_vars

\* ------------------------------------------------------------------ claims
Ids == DOMAIN outbox_ops

IdsOf(ops) == { ops[i].id : i \in DOMAIN ops }

\* C1: an op whose state is `succeeded` or `failed` keeps that state in every step,
\* whichever of enqueue, claimPending, resetStaleInFlight or a processBatch step it is.
C1_TerminalAbsorbing ==
  [][ \A id \in Ids :
        outbox_ops[id].state \in {"succeeded", "failed"}
          => outbox_ops'[id].state = outbox_ops[id].state ]_vars

\* a terminal op older than the staleness threshold, just swept by processBatch's reset
C1_Witness ==
  /\ pc = "resetStaleInFlight"
  /\ \E id \in Ids : /\ outbox_ops[id].state \in {"succeeded", "failed"}
                     /\ outbox_ops[id].updated_at < now - StaleMs

\* the loop body of readyOps[i] has not run yet
AwaitsReconcile(id) ==
  \/ pc \in {"claimByIds", "pushOps"} /\ id \in IdsOf(readyOps)
  \/ pc \in {"markForRetry", "updateState"}
       /\ \E i \in DOMAIN readyOps : i > idx /\ readyOps[i].id = id

\* C2: once the adapter has answered `failed`, retryable, maxAttempts times for an op
\* and that answer has been reconciled, the op is `failed`; a `failed` op is never
\* moved to `in_flight`, never enters readyOps and is never handed to pushOps.
C2_MaxAttemptsTerminal ==
  /\ [](\A id \in Ids :
          failCount[id] >= maxAttempts /\ ~AwaitsReconcile(id)
            => outbox_ops[id].state = "failed")
  /\ [][ \A id \in Ids :
           outbox_ops[id].state = "failed"
             => /\ outbox_ops'[id].state = "failed"
                /\ id \in IdsOf(readyOps') => id \in IdsOf(readyOps)
                /\ pc' = "pushOps" => id \notin IdsOf(readyOps') ]_vars

\* an op that failed maxAttempts times is `failed` while a later processBatch
\* has taken its working set
C2_Witness ==
  /\ pc = "getPending"
  /\ \E id \in Ids : /\ failCount[id] >= maxAttempts
                     /\ outbox_ops[id].state = "failed"
                     /\ id \notin IdsOf(pendingOps)

\* ---- claimPending, seen from a step that returns from it
IsClaimPending == ret'.call = "claimPending"

DistinctCreatedAt(db, S) == \A a, b \in S : a # b => db[a].created_at # db[b].created_at

\* the returned rows are the n oldest of P, all in_flight
OldestClaimed(db, P, n, rows) ==
  LET returned == DOMAIN rows
  IN  /\ Cardinality(returned) = n
      /\ returned \subseteq P
      /\ \A a \in returned, b \in P \ returned : db[a].created_at < db[b].created_at
      /\ \A id \in returned : rows[id].id = id /\ rows[id].state = "in_flight"
      /\ \A id \in returned : outbox_ops'[id].state = "in_flight"

\* C3 (as stated): claimPending(scope, limit) returns the min(limit, #pending) oldest
\* ops that are pending when it is called, in_flight, and changes no other op's state.
C3_AsStated ==
  [][ IsClaimPending =>
        LET scope == ret'.args[1]
            limit == ret'.args[2]
            P == pendingIds(outbox_ops, scope)
        IN  DistinctCreatedAt(outbox_ops, P) =>
              /\ OldestClaimed(outbox_ops, P, Min(limit, Cardinality(P)), ret'.rows)
              /\ \A id \in Ids \ DOMAIN ret'.rows :
                   outbox_ops'[id].state = outbox_ops[id].state ]_vars

\* the in_flight ops of `scope` whose lease is older than the staleness threshold
StaleIds(scope) ==
  { id \in Ids : /\ outbox_ops[id].scope_key = scopeKey(scope)
                 /\ outbox_ops[id].state = "in_flight"
                 /\ outbox_ops[id].updated_at < now - StaleMs }

\* C3 (amended): with P the ops of the scope that are pending or stale in_flight when
\* claimPending(scope, limit) is called, with distinct createdAt, the call returns
\* exactly the min(limit, #P) ops of P with the smallest createdAt, all in_flight;
\* every op not returned keeps its state, except the stale in_flight ops, which
\* become pending.
C3_FifoClaim ==
  [][ IsClaimPending =>
        LET scope == ret'.args[1]
            limit == ret'.args[2]
            P == pendingIds(outbox_ops, scope) \cup StaleIds(scope)
            returned == DOMAIN ret'.rows
        IN  DistinctCreatedAt(outbox_ops, P) =>
              /\ OldestClaimed(outbox_ops, P, Min(limit, Cardinality(P)), ret'.rows)
              /\ \A id \in Ids \ returned :
                   outbox_ops'[id].state =
                     IF id \in StaleIds(scope) THEN "pending" ELSE outbox_ops[id].state ]_vars

\* a claim of two out of three pending ops with distinct createdAt
C3_Witness ==
  /\ ret.call = "claimPending"
  /\ Cardinality(DOMAIN ret.rows) = 2
  /\ \E id \in Ids : /\ outbox_ops[id].state = "pending"
                     /\ outbox_ops[id].scope_key = scopeKey(ret.args[1])
                     /\ \A r \in DOMAIN ret.rows :
                          ret.rows[r].createdAt < outbox_ops[id].created_at

\* the in_flight ops of `scope` whose lease is younger than the threshold
YoungIds(scope) ==
  { id \in Ids : /\ outbox_ops[id].scope_key = scopeKey(scope)
                 /\ outbox_ops[id].state = "in_flight"
                 /\ ~(outbox_ops[id].updated_at < now - StaleMs) }

\* a step in which a processBatch body starts
StartsBody == pc = "idle" /\ pc' = "resetStaleInFlight"

C5_ReentrancyGuard ==
  /\ [](isProcessing <=> pc # "idle")
  /\ [][ /\ pc' = "resetStaleInFlight" /\ pc' # pc => pc = "idle" /\ ~isProcessing
         /\ ret'.call = "processBatch" /\ ret'.outcome = "busy" =>
              /\ isProcessing
              /\ ret'.value = 0
              /\ UNCHANGED <<outbox_ops, procVars>>
         /\ ret'.call = "processBatch" /\ ret'.outcome \in {"returned", "threw"} =>
              /\ pc # "idle"
              /\ ~isProcessing' /\ processingScope' = NoScope /\ pc' = "idle" ]_vars

\* a second call made while the first waits for the adapter has just returned 0
C5_Witness ==
  /\ ret.call = "processBatch" /\ ret.outcome = "busy"
  /\ pc = "pushOps"
  /\ \E id \in IdsOf(readyOps) : outbox_ops[id].state = "in_flight"

\* ---- the reconcile loop, seen from its steps
\* a step in which the loop body of readyOps[idx'] runs up to its first store call
BeginsLoopBody == idx' # idx /\ pc' \in {"markForRetry", "updateState"}

\* a step in which a retried op gets its updateState(op.id, 'pending', error)
RecordsRetryError == pc = "markForRetry" /\ pc' = "updateState"

\* a step that ends the exhausted split and filters the ready ops
FiltersReady ==
  /\ \/ pc = "getPending" /\ Len(pendingOps) > 0 /\ \A i \in DOMAIN pendingOps : ~isExhausted(pendingOps[i])
     \/ pc = "exhausted" /\ Len(exhaustedOps) = 0
  /\ pc' \in {"claimByIds", "idle"}

\* min(baseDelay * 2^attempt, maxDelay), without jitter
ExponentialDelay(attempt) == Min(backoffMs * pow2(attempt), maxBackoffMs)

IsRetryableFailure(result) == result.status = "failed" /\ result.retryable

\* C6: when the adapter answers `failed`, retryable, for a claimed op whose
\* attemptCount + 1 is below maxAttempts, the op is made pending with attemptCount
\* one more than it had, and then gets the adapter's error as lastError, still
\* pending; once 1.2 times its exponential delay has passed since its update, the
\* filter of a later processBatch that has room for it takes it as ready, as long
\* as its attemptCount is below maxAttempts; and an
\* adapter answer `succeeded` leaves the op succeeded.
C6_RetryableFailure ==
  [][ /\ BeginsLoopBody =>
           LET op == readyOps'[idx']
               result == resultsById'[op.id]
           IN  /\ IsRetryableFailure(result) /\ op.attemptCount + 1 < maxAttempts =>
                    /\ pc' = "markForRetry"
                    /\ outbox_ops'[op.id].state = "pending"
                    /\ outbox_ops[op.id].attempt_count = op.attemptCount
                    /\ outbox_ops'[op.id].attempt_count = op.attemptCount + 1
               /\ result.status = "succeeded" => outbox_ops'[op.id].state = "succeeded"
      /\ RecordsRetryError =>
           LET op == readyOps[idx]
               result == resultsById[op.id]
           IN  result.status = "failed" =>
                 /\ outbox_ops'[op.id].state = "pending"
                 /\ outbox_ops'[op.id].attempt_count = op.attemptCount + 1
                 /\ outbox_ops'[op.id].last_error_json = safeJsonEncode(result.error)
      /\ FiltersReady =>
           \A i \in DOMAIN pendingOps :
             LET op == pendingOps[i]
             IN  /\ op.attemptCount > 0 /\ op.attemptCount < maxAttempts
                 /\ (now - op.updatedAt) * 5 >= 6 * ExponentialDelay(op.attemptCount - 1)
                 /\ Len(pendingOps) <= batchSize
                 => op.id \in IdsOf(readyOps') ]_vars

\* an op that failed retryably, was retried and has succeeded
C6_Witness ==
  \E id \in Ids : /\ outbox_ops[id].state = "succeeded"
                  /\ outbox_ops[id].attempt_count >= 1
                  /\ failCount[id] >= 1

\* C7: for the op of each loop body, the answer `succeeded` leaves it succeeded,
\* `failed` with retryable = false leaves it failed whatever its attemptCount,
\* `blocked` leaves it blocked with the reason as its error; attemptCount is left
\* as it was; and the call returns only after the loop body of the last claimed op.
C7_TerminalResultMapping ==
  [][ /\ BeginsLoopBody =>
           LET op == readyOps'[idx']
               result == resultsById'[op.id]
               row == outbox_ops'[op.id]
           IN  /\ idx' = IF pc = "pushOps" THEN 1 ELSE idx + 1
               /\ result.status = "succeeded" =>
                    /\ row.state = "succeeded"
                    /\ row.attempt_count = outbox_ops[op.id].attempt_count
               /\ result.status = "failed" /\ ~result.retryable =>
                    /\ row.state = "failed"
                    /\ row.last_error_json = safeJsonEncode(result.error)
                    /\ row.attempt_count = outbox_ops[op.id].attempt_count
               /\ result.status = "blocked" =>
                    /\ row.state = "blocked"
                    /\ row.last_error_json =
                         safeJsonEncode([code |-> "blocked", message |-> result.reason])
                    /\ row.attempt_count = outbox_ops[op.id].attempt_count
      /\ pc = "updateState" /\ pc' = "idle" => idx = Len(readyOps) ]_vars

\* an op that had been retried got `blocked` and is blocked
C7_Witness ==
  /\ pc = "updateState"
  /\ \E id \in IdsOf(readyOps) :
       /\ resultsById[id].status = "blocked"
       /\ outbox_ops[id].state = "blocked"
       /\ outbox_ops[id].attempt_count >= 1

\* C8: when the adapter's results hold no result for a claimed op, the op is made
\* pending with attemptCount one more than it had, and then gets the missing_result
\* error, still pending; a later processBatch that finds it with attemptCount at
\* maxAttempts marks it failed, and one that finds it below puts it to the filter.
C8_MissingResult ==
  [][ /\ BeginsLoopBody =>
           LET op == readyOps'[idx']
           IN  resultsById'[op.id] = NoResult =>
                 /\ pc' = "markForRetry"
                 /\ outbox_ops'[op.id].state = "pending"
                 /\ outbox_ops'[op.id].attempt_count = outbox_ops[op.id].attempt_count + 1
      /\ RecordsRetryError =>
           LET op == readyOps[idx]
           IN  resultsById[op.id] = NoResult =>
                 /\ outbox_ops'[op.id].state = "pending"
                 /\ outbox_ops'[op.id].attempt_count = outbox_ops[op.id].attempt_count
                 /\ outbox_ops'[op.id].last_error_json =
                      "{\"code\":\"missing_result\",\"message\":\"Adapter did not return a result for this operation\"}"
      /\ pc = "getPending" /\ pc' # "getPending" =>
           \A i \in DOMAIN pendingOps :
             LET op == pendingOps[i]
             IN  IF op.attemptCount >= maxAttempts
                 THEN /\ pc' = "exhausted"
                      /\ op.id \in IdsOf(exhaustedOps') \/ outbox_ops'[op.id].state = "failed"
                 ELSE pc' = "exhausted" \/ FiltersReady ]_vars

\* an op whose only faults were missing results has been marked failed by the
\* max-attempts rule
C8_Witness ==
  \E id \in Ids : /\ outbox_ops[id].state = "failed"
                  /\ failCount[id] = 0
                  /\ outbox_ops[id].attempt_count >= maxAttempts
                  /\ outbox_ops[id].last_error_json = safeJsonEncode(MaxAttemptsError)

\* C9 (as stated): the delay calculateBackoff returns for an attempt is at most the
\* delay it returns for the next attempt, and at most maxDelay, whatever the two
\* jitter draws are (delays are held times BackoffScale).
C9_AsStated ==
  bk.computed => /\ bk.delay <= bk.nextDelay
                 /\ bk.delay <= maxBackoffMs * BackoffScale

\* a delay above maxDelay has been returned
C9_Witness ==
  /\ bk.computed
  /\ bk.delay > maxBackoffMs * BackoffScale
  /\ bk.delay > bk.nextDelay

\* C10: every op the filter takes as ready comes from the working set and, if its
\* attemptCount is above 0, at least 0.8 times its exponential delay (the shortest
\* window the jitter allows) has passed since its updatedAt; an op of the working
\* set with attemptCount = 0 is taken unless batchSize ops are; the step leaves the
\* row of every op it does not take as it is; processBatch moves no other op to
\* in_flight and hands pushOps exactly the ops the filter took.
C10_BackoffGating ==
  [][ /\ FiltersReady =>
           /\ \A i \in DOMAIN readyOps' :
                LET op == readyOps'[i]
                IN  /\ op \in Range(pendingOps)
                    /\ op.attemptCount > 0 =>
                         (now - op.updatedAt) * 5 >= 4 * ExponentialDelay(op.attemptCount - 1)
           /\ \A i \in DOMAIN pendingOps :
                LET op == pendingOps[i]
                IN  /\ op.attemptCount = 0 /\ Len(readyOps') < batchSize
                      => op.id \in IdsOf(readyOps')
                    /\ op.id \notin IdsOf(readyOps') => outbox_ops'[op.id] = outbox_ops[op.id]
      /\ \A id \in Ids :
           /\ outbox_ops[id].state # "in_flight" /\ outbox_ops'[id].state = "in_flight"
           /\ ret'.call # "claimPending"
           => FiltersReady /\ id \in IdsOf(readyOps')
      /\ pc' = "pushOps" /\ pc # "pushOps" => pc = "claimByIds" /\ readyOps' = readyOps ]_vars

\* a processBatch has returned 0 and left a retried op pending, one clock step after
\* its update, inside the longest window the jitter allows
C10_Witness ==
  /\ pc = "idle"
  /\ ret.call = "processBatch" /\ ret.outcome = "returned" /\ ret.value = 0
  /\ \E id \in Ids :
       /\ outbox_ops[id].state = "pending"
       /\ outbox_ops[id].attempt_count > 0 /\ outbox_ops[id].attempt_count < maxAttempts
       /\ now > outbox_ops[id].updated_at
       /\ (now - outbox_ops[id].updated_at) * 5
            < 6 * ExponentialDelay(outbox_ops[id].attempt_count - 1)

\* ------------------------------------------------------- claims: delta pull
\* the persisted cursor of the (scope, collection) a run is for
PersistedCursor(db, run) == getCursor(db, run.scope, run.collectionKey)

EndsRun == ret'.call = "runDeltaPull"

\* C11 -- Cursor never passes a failed page.  While a runDeltaPull runs and when
\* it ends (returning or throwing), the persisted cursor of its (scope,
\* collection) is the nextCursor of the latest page of the run that applied with
\* no error, or the value it had before the run if there is no such page; and
\* when the apply of a page reports an error, the step that receives the result
\* leaves the persisted cursor as it is and ends the run, so that no further page
\* is pulled.
C11_CursorNeverPassesFailedPage ==
  [][ /\ dr.pc # "idle" /\ dr'.pc # "idle" =>
           PersistedCursor(sync_cursors', dr') = dr'.lastGood
      /\ EndsRun =>
           /\ PersistedCursor(sync_cursors', dr) = dr.lastGood
           /\ ~dr.failedPage /\ dr.pagesPulled <= 1 /\ ret'.result.errors > 0 =>
                PersistedCursor(sync_cursors', dr) = dr.startCursor
      /\ dr.pc = "applied" /\ Len(dr.result.errors) > 0 =>
           /\ EndsRun
           /\ sync_cursors' = sync_cursors
           /\ dr'.pc = "idle" ]_vars

\* a run has ended on its second page, whose apply failed, with the cursor of its
\* first page persisted
C11_Witness ==
  /\ ret.call = "runDeltaPull"
  /\ ret.outcome = "returned"
  /\ ret.result.pagesPulled = 2
  /\ ret.result.errors > 0
  /\ ret.result.totalChanges > ret.result.errors
  /\ getCursor(sync_cursors, ret.args[1], ret.args[2]) \in Cursors

\* a page says that more pages follow: hasMore is present and true
SaysMore(response) == "hasMore" \in DOMAIN response /\ response.hasMore

IssuesPull == dr'.pc = "pullChanges" /\ dr.pc # "pullChanges"

\* C13 -- Pagination and bound.  A run calls the pull adapter only when every
\* page it has called for has been received (one call after another), the first
\* call with the cursor the run started from and every later call with the
\* nextCursor of the page before.  A run that returns without an apply error and
\* without a rejected call has made exactly k calls, where page k is the first
\* page that does not say hasMore = true, or k = maxPagesPerRun if the first
\* maxPagesPerRun pages all say hasMore = true; the persisted cursor is then the
\* nextCursor of page k.
C13_PaginationAndBound ==
  [][ /\ IssuesPull =>
           /\ dr'.calls = dr.pagesPulled + 1
           /\ dr.pc \in {"getCursor", "setCursor"}
           /\ dr'.currentCursor = (IF dr.pc = "getCursor" THEN dr.startCursor
                                   ELSE dr.response.nextCursor)
           /\ dr.pc = "setCursor" => SaysMore(dr.response)
      /\ EndsRun /\ ret'.outcome = "returned" /\ dr.pc = "setCursor" =>
           /\ dr.calls = dr.pagesPulled
           /\ ret'.result.pagesPulled = dr.calls
           /\ dr.calls <= maxPagesPerRun
           /\ dr.chained
           /\ dr.earlierMore
           /\ ~SaysMore(dr.response) \/ dr.calls = maxPagesPerRun
           /\ PersistedCursor(sync_cursors', dr) = dr.response.nextCursor ]_vars

\* a two-page run has returned without an error, with the cursor of its second
\* page persisted
C13_Witness ==
  /\ ret.call = "runDeltaPull"
  /\ ret.outcome = "returned"
  /\ ret.result.pagesPulled = 2
  /\ ret.result.errors = 0
  /\ ret.result.applied > 0
  /\ getCursor(sync_cursors, ret.args[1], ret.args[2]) \in Cursors

\* ------------------------------------------------------ claims: apply engine
ReturnsFromApply == ret'.call = "applyChanges"

\* the changes of the running batch that were skipped as conflicts
ConflictedAt(a) == { c.i : c \in { x \in Range(a.calls) : x.fn = "onConflictDetected" } }

\* the rows the handler leaves when it is given, in order, the changes of the
\* batch from position i on that are not in `skipped`
RECURSIVE HandlerEffect(_, _, _, _)
HandlerEffect(items, changes, skipped, i) ==
  IF i > Len(changes) THEN items
  ELSE HandlerEffect(IF i \in skipped THEN items ELSE applyChangeInternal(items, changes[i]),
                     changes, skipped, i + 1)

\* C12 -- Apply is all-or-nothing.  When applyChanges returns and a call made for
\* one of its changes (the handler's or the detector's) has raised, every table
\* holds what it held when the call began (the entity rows are unchanged), applied
\* is 0 and errors is not empty; when none has raised, the entity rows are those
\* the handler produces from the rows at the start with every change that was not
\* skipped as a conflict, applied counts these changes and errors is empty.
C12_ApplyAllOrNothing ==
  [][ ReturnsFromApply =>
        IF Len(ap.errors) > 0
        THEN /\ example_items' = ap.snapshot.example_items
             /\ conflicts' = ap.snapshot.conflicts
             /\ ret'.result.applied = 0
             /\ Len(ret'.result.errors) > 0
        ELSE /\ example_items' = HandlerEffect(ap.snapshot.example_items, ap.changes,
                                               ConflictedAt(ap), 1)
             /\ ret'.result.applied = Len(ap.changes) - Cardinality(ConflictedAt(ap))
             /\ ret'.result.errors = <<>> ]_vars

\* a batch of two changes has been rolled back after one of them was applied and
\* the other raised, with entity rows from an earlier batch in the table
C12_Witness ==
  /\ ret.call = "applyChanges"
  /\ Len(ret.args[1]) = 2
  /\ Len(ret.result.errors) = 1
  /\ ret.result.conflicts = 0
  /\ ret.result.applied = 0
  /\ example_items # <<>>

\* one iteration of the loop of applyChanges is taken
IteratesChange == ap.pc = "transaction" /\ ap'.pc = "transaction" /\ ap'.i = ap.i + 1

\* the calls made for the change at position i, in order
CallsFor(a, i) ==
  LET made == SelectSeq(a.calls, LAMBDA c : c.i = i)
  IN  [ n \in DOMAIN made |-> made[n].fn ]

\* C14 -- Conflict skip.  In the iteration for an upsert for which a detector and
\* a scope are configured and shouldApplyChange returns false, applyChanges calls
\* onConflictDetected once, does not call the handler, leaves the entity rows as
\* they are and does not count the change as applied; when onConflictDetected
\* returns, the change is counted in `conflicts` and not in `errors`.  In the
\* iteration for a delete the only call is handler.applyDelete.
C14_ConflictSkip ==
  [][ IteratesChange =>
        LET change == ap.changes[ap.i]
            fns == CallsFor(ap', ap.i)
            configured == ap.conflictDetector # "none" /\ ap.scope # NoScope
            raised == Len(ap'.errors) = Len(ap.errors) + 1
        IN  /\ change.kind = "delete" => fns = << "applyDelete" >>
            /\ change.kind = "upsert" /\ configured
                 /\ ~shouldApplyChange(outbox_ops, ap.scope, change)
                 /\ fns # << "shouldApplyChange" >> =>
                   /\ fns = << "shouldApplyChange", "onConflictDetected" >>
                   /\ example_items' = example_items
                   /\ ap'.applied = ap.applied
                   /\ ~raised => /\ ap'.conflicts = ap.conflicts + 1
                                 /\ ap'.errors = ap.errors
                   /\ raised => ap'.conflicts = ap.conflicts ]_vars

\* the remote upsert for e1 has arrived while a local op for e1 is pending: the
\* call has returned conflicts = 1, applied = 0, e1 has no entity row and one
\* unresolved conflict is recorded for it
C14_Witness ==
  /\ ret.call = "applyChanges"
  /\ ret.args[1] = << UpsertChange("example_items", "e1", [name |-> "a"], 1) >>
  /\ ret.result = ApplyResult(0, 1, <<>>)
  /\ "e1" \notin DOMAIN example_items
  /\ \E scope \in ActiveScopes :
       /\ Cardinality(unresolvedFor(conflicts, scope, "example_items", "e1")) = 1
       /\ hasPendingOpsForEntity(outbox_ops, scope, "example_items", "e1")

\* ---------------------------------------------------------- claims: conflicts
\* the entity an op is for: the `id` property of its payload
OpEntityId(row) == row.payload_json[4]

\* the outbox holds a pending or in_flight op for the entity (scope, entityKey, entityId)
HoldsUnsyncedOpFor(db, scope, entityKey, entityId) ==
  \E id \in DOMAIN db :
    /\ db[id].scope_key = scopeKey(scope)
    /\ db[id].entity_key = entityKey
    /\ db[id].state \in {"pending", "in_flight"}
    /\ OpEntityId(db[id]) = quote(entityId)

AnswersShouldApply == ret'.call = "shouldApplyChange"

\* C15 -- Default conflict policy.  shouldApplyChange(scope, change) answers true
\* for every delete, and for an upsert it answers false if and only if the outbox
\* holds an op in state pending or in_flight for the same scope, the same
\* entityKey and the same entityId.
C15_AsStated ==
  [][ AnswersShouldApply =>
        LET scope == ret'.args[1]
            change == ret'.args[2]
        IN  ret'.answer =
              (change.kind = "upsert" =>
                 ~HoldsUnsyncedOpFor(outbox_ops, scope, change.entityKey, change.entityId)) ]_vars

\* the detector has answered false for an upsert of e1 while the only op in the
\* outbox is for another entity
C15_Witness ==
  /\ ret.call = "shouldApplyChange"
  /\ ret.args[2].kind = "upsert"
  /\ ~ret.answer
  /\ ~HoldsUnsyncedOpFor(outbox_ops, ret.args[1], ret.args[2].entityKey, ret.args[2].entityId)

\* ---- the conflicts table
\* the rows of one (scope_key, entity_key, entity_id) whose resolved_at is unset
OpenRows(cdb, scope_key, entity_key, entity_id) ==
  { id \in DOMAIN cdb : /\ cdb[id].scope_key = scope_key
                        /\ cdb[id].entity_key = entity_key
                        /\ cdb[id].entity_id = entity_id
                        /\ cdb[id].resolved_at = <<>> }

\* C16: after any sequence of createConflict, onConflictDetected, resolveConflict and
\* resolveConflictsForEntity calls, each taken after the one before it has returned,
\* there is at most one Conflict row with resolvedAt unset for each
\* (scopeKey, entityKey, entityId).
C16_ConflictUniqueness ==
  \A a, b \in DOMAIN conflicts :
    ( /\ conflicts[a].scope_key = conflicts[b].scope_key
      /\ conflicts[a].entity_key = conflicts[b].entity_key
      /\ conflicts[a].entity_id = conflicts[b].entity_id
      /\ conflicts[a].resolved_at = <<>>
      /\ conflicts[b].resolved_at = <<>> ) => a = b

\* createConflict has returned without inserting the id it generated: it found the
\* unresolved row of an entity that also has a resolved row
C16_Witness ==
  /\ ret.call = "createConflict"
  /\ ret.value \notin DOMAIN conflicts
  /\ \E a, b \in DOMAIN conflicts :
       /\ conflicts[a].entity_id = ret.args[3] /\ conflicts[a].resolved_at = <<>>
       /\ conflicts[b].entity_id = ret.args[3] /\ conflicts[b].resolved_at # <<>>

\* ---- the default detector told of a conflict
DetectsAgain ==
  /\ ret'.call = "onConflictDetected"
  /\ ret'.args[2].kind = "upsert"
  /\ OpenRows(conflicts, scopeKey(ret'.args[1]), ret'.args[2].entityKey,
              ret'.args[2].entityId) # {}

\* C17 (as stated): when onConflictDetected runs for an entity whose Conflict row is
\* still unresolved, the single unresolved row afterwards carries the local version,
\* the remote version (the change's data) and the timestamp of this detection.
C17_AsStated ==
  [][ DetectsAgain =>
        LET scope == ret'.args[1]
            change == ret'.args[2]
            open == OpenRows(conflicts', scopeKey(scope), change.entityKey, change.entityId)
        IN  /\ Cardinality(open) = 1
            /\ \A id \in open :
                 /\ conflicts'[id].remote_version_json = dataJson(change.data)
                 /\ conflicts'[id].created_at = now
                 /\ conflicts'[id].local_version_json \in
                      getLocalVersion(outbox_ops, example_items, change.entityKey,
                                      change.entityId) ]_vars

\* a detection has returned and the unresolved row of its entity holds another
\* remote version than the detected change's data
C17_Witness ==
  /\ ret.call = "onConflictDetected"
  /\ ret.args[2].kind = "upsert"
  /\ \E id \in OpenRows(conflicts, scopeKey(ret.args[1]), ret.args[2].entityKey,
                        ret.args[2].entityId) :
       conflicts[id].remote_version_json # dataJson(ret.args[2].data)

\* ---- the orchestrator
\* the pull adapter is called in the runDeltaPull of a triggerForegroundSync
ForegroundPulls ==
  /\ so.app.fn = "triggerForegroundSync"
  /\ dr.pc # "pullChanges"
  /\ dr'.pc = "pullChanges"

\* the processOutbox of the triggerForegroundSync under way is left
LeavesDrain ==
  /\ so.app.fn = "triggerForegroundSync"
  /\ so.app.pc = "refreshPendingCount in processOutbox"
  /\ so'.app.pc \in {"runDeltaPull", "refreshPendingCount", "idle"}

\* C18 (as stated): within one triggerForegroundSync the pull adapter is called only
\* once the drain of that call has finished, its last processBatch having returned 0
\* and no push being in flight, also while a drain of the poll timer is in progress;
\* and the drain calls processBatch again until it returns 0.
C18_AsStated ==
  /\ [][ ForegroundPulls =>
           /\ so.app.drained
           /\ so.app.processed = 0
           /\ pc # "pushOps" ]_vars
  /\ [][ LeavesDrain => so.app.processed = 0 ]_vars

\* the pull adapter's answer to a triggerForegroundSync is awaited while the push
\* of a drain started by the poll timer is awaited
C18_Witness ==
  /\ so.app.fn = "triggerForegroundSync"
  /\ dr.pc = "pullChanges"
  /\ so.poll.pc = "processBatch"
  /\ pc = "pushOps"

\* a step of triggerForegroundSync: its start, one of its continuations, its end
ForegroundStep ==
  \/ so.app.fn = "none" /\ so'.app.fn = "triggerForegroundSync"
  \/ so.app.fn = "triggerForegroundSync" /\ so'.app # so.app
  \/ ret'.call = "triggerForegroundSync"

\* a call awaited by the triggerForegroundSync under way has been rejected by
\* its adapter
ForegroundRejected ==
  /\ so.app.fn = "triggerForegroundSync"
  /\ ret.outcome = "threw"
  /\ \/ ret.call = "processBatch" /\ so.app.pc = "processBatch"
     \/ ret.call = "runDeltaPull" /\ so.app.pc = "runDeltaPull"

\* C19: whatever the push and pull adapters do, rejections included,
\* triggerForegroundSync ends by returning; a rejection of a call it awaits ends it
\* with lastError set to a sync_error of that moment and isSyncing false; and none of
\* its steps changes isStarted, the poll timer or the listeners.
C19_ForegroundSyncNeverThrows ==
  /\ [][ so.app.fn = "triggerForegroundSync" /\ so'.app.fn = "none" =>
           ret'.call = "triggerForegroundSync" /\ ret'.outcome = "returned" ]_vars
  /\ [][ ret'.call = "triggerForegroundSync" => ret'.outcome = "returned" ]_vars
  /\ [][ ForegroundRejected =>
           /\ ret'.call = "triggerForegroundSync"
           /\ ret'.outcome = "returned"
           /\ Len(so'.status.lastError) = 1
           /\ so'.status.lastError[1].code = "sync_error"
           /\ so'.status.lastError[1].at = now
           /\ ~so'.status.isSyncing ]_vars
  /\ [][ ForegroundStep =>
           /\ so'.isStarted = so.isStarted
           /\ so'.processingInterval = so.processingInterval
           /\ so'.networkStatusUnsubscribe = so.networkStatusUnsubscribe
           /\ so'.appStateSubscription = so.appStateSubscription
           /\ so.signalUnsubscribe => so'.signalUnsubscribe ]_vars

\* a triggerForegroundSync has returned after the push adapter rejected its
\* pushOps: lastError is set, the orchestrator is started and its timer armed
C19_Witness ==
  /\ ret.call = "triggerForegroundSync"
  /\ ret.outcome = "returned"
  /\ Len(so.status.lastError) = 1
  /\ so.status.lastError[1].message = "pushOps rejected"
  /\ so.isStarted
  /\ so.processingInterval

\* ---- the poll timer
\* the callback of a tick calls processOutbox
PollStarts == so.poll.fn = "none" /\ so'.poll.fn = "poll"

\* the callback of a tick returns without calling processOutbox
PollSkips == ret'.call = "poll" /\ ret'.outcome = "skipped"

PollCondition ==
  /\ so.activeScope # NoScope
  /\ so.online
  /\ ~so.status.isSyncing
  /\ ~so.isPaused
  /\ so.status.pendingOutboxOps > 0

\* C20: a tick of the poll timer starts an outbox drain, calling processBatch, only
\* in a state where a scope is active, the network is online, isSyncing is false,
\* the orchestrator is not paused and pendingOutboxOps > 0; a tick in any other
\* state leaves the processor, the outbox and the delta runner as they are; and a
\* runDeltaPull is only ever started by a call of the app, never by a tick.
C20_PollTimerGating ==
  /\ [][ PollStarts =>
           /\ PollCondition
           /\ so'.poll.pc = "processBatch" \/ ret'.outcome = "busy" ]_vars
  /\ [][ PollSkips =>
           /\ ~PollCondition
           /\ UNCHANGED <<outbox_ops, procVars, dr, sync_cursors>> ]_vars
  /\ [][ PollStarts \/ PollSkips => dr' = dr ]_vars
  /\ [][ dr.pc = "idle" /\ dr'.pc # "idle" => so'.app.pc = "runDeltaPull" ]_vars
  /\ [](so.poll.pc # "runDeltaPull")

\* a tick has returned without a drain because isSyncing is true, everything else
\* of its condition being met
C20_Witness ==
  /\ ret.call = "poll"
  /\ ret.outcome = "skipped"
  /\ so.processingInterval
  /\ so.activeScope # NoScope
  /\ so.online
  /\ ~so.isPaused
  /\ so.status.pendingOutboxOps > 0
  /\ so.status.isSyncing

\* C27: an enqueue adds exactly one row, `pending` with attempt_count 0, and leaves
\* every other row as it is; no step changes the id, the payload or the
\* idempotency key of a row; and each op handed to adapter.pushOps, in a first
\* attempt, in a retry or after its lease was reclaimed, carries the id, the decoded
\* payload and the idempotency key its row holds, which are those stored at enqueue.
KeepsIdentity(id) ==
  /\ id \in DOMAIN outbox_ops'
  /\ outbox_ops'[id].id = outbox_ops[id].id
  /\ outbox_ops'[id].payload_json = outbox_ops[id].payload_json
  /\ outbox_ops'[id].idempotency_key = outbox_ops[id].idempotency_key

NewRows == DOMAIN outbox_ops' \ DOMAIN outbox_ops

CallsPushOps == pc = "claimByIds" /\ pc' = "pushOps"

CarriesRow(op) ==
  /\ op.id \in DOMAIN outbox_ops
  /\ op.id = outbox_ops[op.id].id
  /\ op.payload = safeJsonDecode(outbox_ops[op.id].payload_json)
  /\ op.payload # NullPayload
  /\ op.idempotencyKey = outbox_ops[op.id].idempotency_key
  /\ op.idempotencyKey # NoKey

C27_StableIdempotencyKey ==
  [][ /\ \A id \in DOMAIN outbox_ops : KeepsIdentity(id)
      /\ Cardinality(NewRows) <= 1
      /\ \A id \in NewRows :
           /\ outbox_ops'[id].state = "pending"
           /\ outbox_ops'[id].attempt_count = 0
           /\ outbox_ops'[id].idempotency_key # NoKey
           /\ \A other \in DOMAIN outbox_ops : outbox_ops'[other] = outbox_ops[other]
      /\ CallsPushOps =>
           \A i \in DOMAIN readyOps : CarriesRow(adapterOps(readyOps)[i]) ]_vars

\* an op enqueued with the caller's key is handed to the adapter again after a retry
C27_Witness ==
  /\ pc = "pushOps"
  /\ \E i \in DOMAIN readyOps :
       /\ readyOps[i].attemptCount >= 1
       /\ readyOps[i].idempotencyKey = << "k1" >>

\* C28: processBatch throws to its caller only out of the await of adapter.pushOps:
\* no step of the result loop throws, whatever mix of `failed`, `blocked` and missing
\* results the adapter gave.  The step in which it throws changes no row, so no
\* result is reconciled and every op claimed for the batch is still in_flight with
\* the attemptCount it was claimed with; such an op keeps its attemptCount while no
\* batch runs, and the next processBatch of the scope that finds its lease stale
\* makes it pending again.
ThrowsToCaller == ret'.call = "processBatch" /\ ret'.outcome = "threw"

InResultLoop == pc \in {"markForRetry", "updateState"}

\* in_flight ops no running batch holds
Orphans == IF pc = "idle" THEN { id \in Ids : outbox_ops[id].state = "in_flight" } ELSE {}

C28_ExceptionPolicy ==
  [][ /\ ThrowsToCaller =>
           /\ pc = "pushOps"
           /\ outbox_ops' = outbox_ops
           /\ \A i \in DOMAIN readyOps :
                /\ outbox_ops'[readyOps[i].id].state = "in_flight"
                /\ outbox_ops'[readyOps[i].id].attempt_count = readyOps[i].attemptCount
      /\ InResultLoop => ~ThrowsToCaller
      /\ \A id \in Orphans :
           /\ outbox_ops'[id].state \in {"in_flight", "pending"}
           /\ outbox_ops'[id].attempt_count = outbox_ops[id].attempt_count
      /\ StartsBody =>
           \A id \in Orphans \cap StaleIds(pbScope') : outbox_ops'[id].state = "pending" ]_vars

\* processBatch has just thrown and the op it had claimed is in_flight
C28_Witness ==
  /\ ret.call = "processBatch" /\ ret.outcome = "threw"
  /\ \E id \in Ids : outbox_ops[id].state = "in_flight" /\ outbox_ops[id].attempt_count = 0

\* C30 (as stated): the number a processBatch that ran its body returns is the number
\* of ops of its batch that it made `succeeded`, and when that number is 0 no op of
\* the scope is ready to be pushed: none is pending with attempts left and its
\* backoff elapsed.
ReturnsNumber == ret'.call = "processBatch" /\ ret'.outcome = "returned"

SucceededByCall ==
  { i \in DOMAIN readyOps : outbox_ops'[readyOps[i].id].state = "succeeded" }

ReadyNow(db, scope, t) ==
  { id \in DOMAIN db :
      /\ db[id].scope_key = scopeKey(scope)
      /\ db[id].state = "pending"
      /\ ~isExhausted(mapRowToOp(db[id]))
      /\ \A random \in RandomValues : isBackoffElapsed(mapRowToOp(db[id]), t, random) }

ReturnsSucceededCount ==
  [][ ReturnsNumber => ret'.value = Cardinality(SucceededByCall) ]_vars

C30_AsStated ==
  [][ ReturnsNumber =>
        /\ ret'.value = Cardinality(SucceededByCall)
        /\ ret'.value = 0 => ReadyNow(outbox_ops', ret'.args[1], now') = {} ]_vars

\* a processBatch whose only op was answered `blocked` has returned 0 and another op
\* of the scope, never attempted, is pending
C30_Witness ==
  /\ ret.call = "processBatch" /\ ret.outcome = "returned" /\ ret.value = 0
  /\ \E id \in Ids : outbox_ops[id].state = "blocked"
  /\ \E id \in Ids : outbox_ops[id].state = "pending" /\ outbox_ops[id].attempt_count = 0

\* C29 (as stated): for the page a runDeltaPull with a handler is working on, whose
\* changes were all applied (none skipped as a conflict, none raised), there is no
\* state in which the changes are in the entity table, committed, while the persisted
\* cursor of the (scope, collection) is still the cursor the page was pulled with,
\* and none in which the persisted cursor is the page's nextCursor while the changes
\* are not in the entity table.
IsVisible(items, change) ==
  IF change.kind = "upsert"
  THEN /\ change.entityId \in DOMAIN items
       /\ items[change.entityId].name = change.data.name
       /\ items[change.entityId].updated_at = change.updatedAt
  ELSE change.entityId \notin DOMAIN items

\* every change of the page that no later change of the page overrides is in the table
PageVisible(items, changes) ==
  \A i \in DOMAIN changes :
    (\A j \in DOMAIN changes : j > i => changes[j].entityId # changes[i].entityId)
      => IsVisible(items, changes[i])

\* the page's transaction has committed every change of the page
PageCommitted ==
  /\ dr.pc \in {"applied", "setCursor"}
  /\ dr.config.handler
  /\ Len(dr.response.changes) > 0
  /\ dr.result.errors = <<>>
  /\ dr.result.applied = Len(dr.response.changes)

C29_AsStated ==
  PageCommitted =>
    LET cursor == PersistedCursor(sync_cursors, dr)
        visible == PageVisible(example_items, dr.response.changes)
    IN  /\ ~(visible /\ cursor = dr.currentCursor /\ cursor # dr.response.nextCursor)
        /\ cursor = dr.response.nextCursor => visible

\* the first page of a collection has been committed to an entity table that was
\* empty, and the cursor row has not been written yet
C29_Witness ==
  /\ dr.pc = "applied"
  /\ PageCommitted
  /\ PageVisible(example_items, dr.response.changes)
  /\ sync_cursors = <<>>
  /\ dr.response.nextCursor # DEFAULT_CURSOR

\* C25 (as stated): the step in which Outbox.enqueue inserts an op for the active
\* scope leaves SyncStatus.pendingOutboxOps one greater than it was.
EnqueuesForActiveScope ==
  /\ NewRows # {}
  /\ so.activeScope # NoScope
  /\ \A id \in NewRows : outbox_ops'[id].scope_key = scopeKey(so.activeScope)

C25_AsStated ==
  [][ EnqueuesForActiveScope =>
        so'.status.pendingOutboxOps = so.status.pendingOutboxOps + 1 ]_vars

\* an op is pending for the active scope, no sync operation runs, and the status
\* still counts no pending op
C25_Witness ==
  /\ so.isStarted /\ so.activeScope # NoScope
  /\ so.app.pc = "idle" /\ so.poll.pc = "idle" /\ pc = "idle" /\ dr.pc = "idle"
  /\ countPending(outbox_ops, so.activeScope) = 1
  /\ so.status.pendingOutboxOps = 0

\* C26 (as stated): once an op is in the outbox for the active scope of a started
\* orchestrator that is in the foreground and online, it is eventually among the ops
\* handed to adapter.pushOps, and it eventually is `succeeded`, `failed` or `blocked`.
PollPremises(id) ==
  /\ id \in DOMAIN outbox_ops
  /\ so.isStarted /\ ~so.isPaused /\ so.online /\ so.processingInterval
  /\ so.activeScope # NoScope
  /\ outbox_ops[id].scope_key = scopeKey(so.activeScope)

HandedToAdapter(id) ==
  pc = "pushOps" /\ \E i \in DOMAIN readyOps : readyOps[i].id = id

Settled(id) ==
  id \in DOMAIN outbox_ops /\ outbox_ops[id].state \in {"succeeded", "failed", "blocked"}

C26_AsStated ==
  \A id \in 1..MaxSyncOps :
    /\ PollPremises(id) ~> (HandedToAdapter(id) \/ Settled(id))
    /\ PollPremises(id) ~> Settled(id)

\* the timer has fired and skipped its drain while an op of the active scope waits
C26_Witness ==
  /\ ret = SyncRet("poll", "skipped")
  /\ so.app.pc = "idle" /\ so.poll.pc = "idle"
  /\ so.status.pendingOutboxOps = 0 /\ ~so.status.isSyncing
  /\ \E id \in DOMAIN outbox_ops : PollPremises(id) /\ outbox_ops[id].state = "pending"

\* ---- signal debounce
\* a signal reaches the onSignal callback
SignalArrives == so'.sinceSignal = << 0 >> /\ so.sinceSignal # << 0 >>

\* the callback of the debounce timer runs
DebounceCallback ==
  \/ ret'.call = "signal" /\ ret'.outcome = "skipped"
  \/ so.sig.pc = "idle" /\ so'.sig.pc = "runDeltaPull"

\* a delta pull is started for the signal
StartsSignalPull ==
  /\ so.sig.pc = "idle" /\ so'.sig.pc = "runDeltaPull"
  /\ dr.pc = "idle" /\ dr'.pc = "getCursor"
  /\ dr'.scope = so.activeScope

\* no processBatch is started, and the one under way is left as it is
LeavesProcessor == UNCHANGED <<pc, isProcessing, processingScope, outbox_ops>>

\* at most one debounce timer is pending, and only while the listener is attached
OneTimerWhileAttached(s) ==
  /\ Cardinality(s.timers) <= 1
  /\ s.timers # {} => s.signalUnsubscribe /\ s.signalDebounceTimer # <<>>
                      /\ s.timers = {s.signalDebounceTimer[1]}

\* what the claim and its amended form share: one pending timer per burst, which
\* each signal of the burst restarts and a detach cancels; the callback runs
\* signalDebounceMs after the latest signal; neither a signal, nor the callback,
\* nor the end of the pull it started touches the processor
DebounceRules ==
  /\ OneTimerWhileAttached(so')
  /\ ~so'.signalUnsubscribe => so'.timers = {}
  /\ SignalArrives => so'.timers = {signalDebounceMs} /\ LeavesProcessor
  /\ DebounceCallback => so.sinceSignal = << signalDebounceMs >> /\ LeavesProcessor
  /\ so.sig.pc = "runDeltaPull" /\ so'.sig.pc = "idle" => LeavesProcessor
  /\ so.sig.pc = "idle" /\ so'.sig.pc # "idle" => DebounceCallback

\* C21 (as stated): every burst of signals ends in one run of the debounce callback,
\* signalDebounceMs after its last signal, and that run starts exactly one delta
\* pull; no signal and no callback calls processBatch; a detach cancels the pending
\* timer.
C21_AsStated ==
  [][ /\ DebounceRules
      /\ DebounceCallback => StartsSignalPull ]_vars

\* C21 (amended): as above, but the run of the callback starts exactly one delta
\* pull if the app is not paused and the network is online, and none otherwise.
C21_SignalDebounce ==
  [][ /\ DebounceRules
      /\ DebounceCallback => (StartsSignalPull <=> (~so.isPaused /\ so.online)) ]_vars

\* the pull of a burst of two signals has been started: the second signal came
\* TickMs after the first, and the callback ran signalDebounceMs after the second
C21_Witness ==
  /\ so.sig.pc = "runDeltaPull"
  /\ dr.pc = "getCursor"
  /\ so.timers = {}
  /\ so.signalUnsubscribe

\* ------------------------------------------------------------------ C22
\* handleAppStateChange('background' | 'inactive') has run
Backgrounds == ~so.isPaused /\ so'.isPaused

\* handleAppStateChange('active') has run
Resumes == so.isPaused /\ ~so'.isPaused

\* the step starts a call of triggerForegroundSync, and no other call
StartsForegroundSync ==
  /\ so.app.fn = "none"
  /\ so'.app.fn = "triggerForegroundSync"
  /\ so'.poll = so.poll
  /\ so'.sig = so.sig
  /\ dr' = dr

\* the callback of the debounce timer starts its delta pull
SignalPullStarts == so.sig.pc = "idle" /\ so'.sig.pc # "idle"

\* C22: a background/inactive transition sets paused, detaches the signal listener
\* (its pending debounce with it) and leaves the poll timer as it was, starting
\* nothing; while paused no tick of the poll timer starts a drain and no signal
\* starts a pull; an active transition with a scope active clears paused, leaves
\* exactly one signal listener attached, for the active scope, and starts exactly
\* one triggerForegroundSync.
C22_AppLifecycle ==
  [][ /\ Backgrounds =>
           /\ ~so'.signalUnsubscribe
           /\ so'.attachments = << >>
           /\ so'.timers = {}
           /\ so'.processingInterval = so.processingInterval
           /\ so'.app = so.app /\ so'.poll = so.poll /\ so'.sig = so.sig
           /\ UNCHANGED <<pc, dr, outbox_ops>>
      /\ so.isPaused => ~PollStarts /\ ~SignalPullStarts
      /\ so.isPaused /\ ret'.call \in {"poll", "signal"} /\ so'.poll = so.poll /\ so'.sig = so.sig =>
           ret'.outcome = "skipped" /\ UNCHANGED <<pc, dr, outbox_ops>>
      /\ Resumes /\ so.activeScope # NoScope =>
           /\ so'.signalUnsubscribe
           /\ so'.attachments = << so.activeScope >>
           /\ so'.activeScope = so.activeScope
           /\ StartsForegroundSync
    ]_vars

\* the app is back in the foreground with a scope active: the listener is attached
\* once and the foreground sync is pushing the outbox
C22_Witness ==
  /\ ~so.isPaused
  /\ so.app.fn = "triggerForegroundSync"
  /\ so.app.pc = "processBatch"
  /\ so.attachments = << so.activeScope >>
  /\ so.status.pendingOutboxOps > 0

\* ------------------------------------------------------------------ C23
\* a delta pull has written a cursor for `scope`: its sync was started at some time
HasSynced(scope) == \E key \in DOMAIN sync_cursors : key[1] = scopeKey(scope)

\* C23: whatever start, stop, startScopeSync, stopScopeSync and app-state
\* transitions have been made, the signal adapter has at most one live attachment,
\* the orchestrator holds its unsubscribe handle, and the attachment is for the
\* scope that is active now.
C23_SingleAttachment ==
  /\ Len(so.attachments) <= 1
  /\ so.signalUnsubscribe <=> so.attachments # << >>
  /\ so.attachments # << >> => so.activeScope # NoScope /\ so.attachments = << so.activeScope >>

\* the listener is attached for a scope after the sync of another scope was started
\* and pulled from
C23_Witness ==
  /\ so.attachments # << >>
  /\ \E scope \in Scopes : scope # so.activeScope /\ HasSynced(scope)
  /\ so.app.pc = "idle"

\* ------------------------------------------------------------------ C24
\* a startScopeSync is at its await of refreshPendingCount: it has set the scope and
\* arms the timer and attaches the listener when it goes on
AwaitsRefresh == so.app.fn = "startScopeSync" /\ so.app.pc = "refreshPendingCount"

StartedWithScope == so.isStarted /\ so.activeScope # NoScope

\* C24: in every reachable state, a stop or stopScopeSync issued during the await of
\* a startScopeSync included, the poll timer is armed only if the orchestrator is
\* started and a scope is active, and is armed if it is so once the startScopeSync
\* under way is past its await; a signal attachment or a pending debounce timer
\* exists only if the orchestrator is started and a scope is active.
C24_AsStated ==
  /\ so.processingInterval => StartedWithScope
  /\ StartedWithScope /\ ~AwaitsRefresh => so.processingInterval
  /\ so.attachments # << >> \/ so.timers # {} \/ so.signalDebounceTimer # << >> => StartedWithScope

\* a startScopeSync has returned in a started orchestrator whose scope was stopped
\* during its await
C24_Witness ==
  /\ ret.call = "startScopeSync"
  /\ ret.outcome = "returned"
  /\ so.isStarted
  /\ so.activeScope = NoScope

\* ------------------------------------------------------------------ C32
\* the list of ops is in ascending createdAt order
Ascending(ops) ==
  \A i, j \in DOMAIN ops : i < j => ops[i].createdAt <= ops[j].createdAt

\* rows of the scope of `op` that are older than it, pending, and not in the batch
OlderLeftOut(op, batch) ==
  { id \in DOMAIN outbox_ops :
      /\ outbox_ops[id].scope_key = op.scopeKey
      /\ outbox_ops[id].created_at < op.createdAt
      /\ outbox_ops[id].state = "pending"
      /\ id \notin IdsOf(batch) }

\* the row is waiting out the backoff of a retry: its delay, with the largest
\* jitter Math.random() can give, has not passed since its update
InBackoff(row) ==
  /\ row.attempt_count > 0
  /\ ~isBackoffElapsed(mapRowToOp(row), now, RandomDen - 1)

\* getPending hands processBatch its working set in ascending createdAt order, and
\* the batch is cut out of it in that order
KeepsQueryOrder ==
  /\ pc = "resetStaleInFlight" => Ascending(pendingOps')
  /\ FiltersReady =>
       \E f \in [DOMAIN readyOps' -> DOMAIN pendingOps] :
         /\ \A i \in DOMAIN readyOps' : readyOps'[i] = pendingOps[f[i]]
         /\ \A i, j \in DOMAIN readyOps' : i < j => f[i] < f[j]

Pushes(count, id) == IF id \in DOMAIN count THEN count[id] ELSE 0

IsSettled(row) == row.state \in {"succeeded", "failed", "blocked"}

\* C35: when every pushOps call returns and no lease goes stale, no op is handed to
\* the adapter in more than maxAttempts pushOps calls, and an op that is succeeded,
\* failed or blocked is in no later pushOps call.
C35_BoundedPushes ==
  [][ \A id \in DOMAIN outbox_ops' :
        /\ Pushes(pushCount', id) <= maxAttempts
        /\ id \in DOMAIN outbox_ops /\ IsSettled(outbox_ops[id])
             => Pushes(pushCount', id) = Pushes(pushCount, id) ]_vars

\* an op has been pushed maxAttempts times and has ended `failed`, while another op of
\* the scope is at the adapter
C35_Witness ==
  /\ pc = "pushOps"
  /\ \E id \in DOMAIN outbox_ops :
       /\ Pushes(pushCount, id) = maxAttempts
       /\ outbox_ops[id].state = "failed"

\* ------------------------------------------------------------------ C34
\* processBatch returns normally from its body
ReturnsNormally == ret'.call = "processBatch" /\ ret'.outcome = "returned"

LeasedIds(db) == { id \in DOMAIN db : db[id].state = "in_flight" }

\* the ops the running processBatch has claimed
ClaimedByBatch(processing, ready) == IF processing THEN IdsOf(ready) ELSE {}

\* ops in_flight that no running processBatch of their scope holds
StrayLeases(db, processing, scope, ready) ==
  { id \in LeasedIds(db) :
      ~(id \in ClaimedByBatch(processing, ready) /\ db[id].scope_key = scopeKey(scope)) }

NoLeaseAtReturn ==
  ReturnsNormally =>
    \A id \in IdsOf(readyOps) :
      outbox_ops'[id].state \in {"pending", "succeeded", "failed", "blocked"}

\* C34 as stated: when processBatch returns normally none of the ops it claimed is
\* in_flight, and an op is in_flight only while a processBatch for its scope is in
\* progress.
C34_AsStated ==
  [][ /\ NoLeaseAtReturn
      /\ \A id \in LeasedIds(outbox_ops') :
           isProcessing' /\ scopeKey(processingScope') = outbox_ops'[id].scope_key ]_vars

\* C34 amended: when processBatch returns normally none of the ops it claimed is
\* in_flight; an op is in_flight without a running processBatch that holds it only
\* from the step in which the processBatch that claimed it threw, and until a
\* processBatch resets the lease.
C34_NoLeaseLeftBehind ==
  [][ /\ NoLeaseAtReturn
      /\ \A id \in StrayLeases(outbox_ops', isProcessing', processingScope', readyOps') :
           \/ id \in StrayLeases(outbox_ops, isProcessing, processingScope, readyOps)
           \/ /\ ret'.call = "processBatch" /\ ret'.outcome = "threw"
              /\ id \in IdsOf(readyOps)
      /\ \A id \in StrayLeases(outbox_ops, isProcessing, processingScope, readyOps) :
           outbox_ops'[id].state # "in_flight" =>
             /\ outbox_ops'[id].state = "pending"
             /\ pc = "idle" /\ pc' = "resetStaleInFlight" ]_vars

\* a processBatch has thrown and left the lease of the op it claimed; a later one
\* has reset the lease, pushed the op again, got `blocked` for it and returned
\* normally
C34_Witness ==
  /\ ret.call = "processBatch" /\ ret.outcome = "returned"
  /\ \E id \in DOMAIN outbox_ops :
       /\ outbox_ops[id].state = "blocked"
       /\ outbox_ops[id].attempt_count = 0
       /\ Pushes(pushCount, id) = 2

\* ------------------------------------------------------------------ C33
\* the step is made by a call for `scope`: a step of processBatch(scope), or
\* claimPending(scope, limit), resetStaleInFlight(scope) or deleteSucceeded(scope, ..)
IsCallFor(scope) ==
  \/ pbScope = scope
  \/ pbScope' = scope
  \/ ret'.call \in {"claimPending", "deleteSucceeded"} /\ ret'.args[1] = scope
  \/ ResetStaleInFlight(scope)

\* the rows of other scopes are there after the step, with the state, the
\* attempt_count and the last_error_json they had
LeavesOtherScopes(scope) ==
  \A id \in DOMAIN outbox_ops :
    outbox_ops[id].scope_key # scopeKey(scope) =>
      /\ id \in DOMAIN outbox_ops'
      /\ outbox_ops'[id].state = outbox_ops[id].state
      /\ outbox_ops'[id].attempt_count = outbox_ops[id].attempt_count
      /\ outbox_ops'[id].last_error_json = outbox_ops[id].last_error_json

\* C33: processBatch(S), claimPending(S, limit), resetStaleInFlight(S) and
\* deleteSucceeded(S) leave the state, attemptCount and lastError of every op of
\* another scope as they are, delete none of them, and hand none of them to the
\* push adapter or back to the caller.
C33_ScopeIsolation ==
  [][ \A scope \in Scopes :
        IsCallFor(scope) =>
          /\ LeavesOtherScopes(scope)
          /\ CallsPushOps => \A i \in DOMAIN readyOps : readyOps[i].scopeKey = scopeKey(scope)
          /\ ret'.call = "claimPending" =>
               \A id \in DOMAIN ret'.rows : ret'.rows[id].scopeKey = scopeKey(scope) ]_vars

\* deleteSucceeded for one scope has deleted a row while a succeeded op of the other
\* scope, pushed by a processBatch for that scope, is still there
C33_Witness ==
  /\ ret.call = "deleteSucceeded" /\ ret.value > 0
  /\ \E id \in DOMAIN outbox_ops :
       /\ outbox_ops[id].scope_key # scopeKey(ret.args[1])
       /\ outbox_ops[id].state = "succeeded"

\* ------------------------------------------- claims: reported conflicts
\* the changes of the batch skipped as conflicts whose entity has an unresolved
\* Conflict row in the table cdb
RecordedAt(a, cdb) ==
  { i \in ConflictedAt(a) :
      hasConflict(cdb, a.scope, a.changes[i].entityKey, a.changes[i].entityId) }

\* no call of the detector has raised in the batch: its errors are the handler's
OnlyHandlerErrors(a) ==
  \A n \in DOMAIN a.errors : a.errors[n].error = "handler failed"

\* C39 (as stated): when applyChanges returns from a batch for which the default
\* detector and a scope are configured, the returned `conflicts` count is the
\* number of changes of the batch that were skipped as conflicts and whose
\* unresolved Conflict row is in the conflicts table after the call, also when the
\* batch was rolled back because the handler raised for another change.
C39_AsStated ==
  [][ ReturnsFromApply /\ ap.conflictDetector = "default" /\ ap.scope # NoScope
        /\ OnlyHandlerErrors(ap) =>
          ret'.result.conflicts = Cardinality(RecordedAt(ap, conflicts')) ]_vars

\* a batch of two changes has returned conflicts = 1 and one error, and the
\* conflicts table holds no row
C39_Witness ==
  /\ ret.call = "applyChanges"
  /\ Len(ret.args[1]) = 2
  /\ ret.result.conflicts = 1
  /\ Len(ret.result.errors) = 1
  /\ ret.result.errors[1].error = "handler failed"
  /\ conflicts = <<>>

\* ------------------------------------------- claims: overlapping delta pulls
\* two runDeltaPull calls for the same (scope, collection) are in progress
OverlappingPulls ==
  /\ dr.pc # "idle"
  /\ so.waiting # <<>>
  /\ so.waiting[1].run.scope = dr.scope
  /\ so.waiting[1].run.collectionKey = dr.collectionKey

\* C31 (as stated): delta pulls are never concurrent.  Whatever entry points of the
\* orchestrator have been taken (the initial pull of startScopeSync,
\* triggerForegroundSync, the debounced signal handler, the return to the
\* foreground), at most one runDeltaPull for a given (scope, collection) is in
\* progress at any time.
C31_AsStated == ~OverlappingPulls

\* the runDeltaPull of a triggerForegroundSync and the runDeltaPull of the debounce
\* callback both await the pull adapter, each called with the cursor "0"
C31_Witness ==
  /\ so.app.fn = "triggerForegroundSync"
  /\ so.app.pc = "runDeltaPull"
  /\ so.sig.pc = "runDeltaPull"
  /\ dr.pc = "pullChanges"
  /\ so.waiting # <<>>
  /\ so.waiting[1].run.pc = "pullChanges"
  /\ so.waiting[1].run.currentCursor = dr.currentCursor

\* C36 (as stated): the cursor never regresses.  Over any interleaving of the
\* delta pulls the orchestrator starts for one (scope, collection), no step
\* replaces the persisted cursor of a page of the adapter's page sequence with
\* the cursor of an earlier page.
C36_AsStated ==
  [][ \A key \in DOMAIN sync_cursors :
        CursorIndex(sync_cursors'[key].cursor) >= CursorIndex(sync_cursors[key].cursor) ]_vars

\* a run that has persisted the cursor of page 2 awaits, and the persisted cursor
\* is the cursor of page 1, written since by the other run
C36_Witness ==
  /\ so.waiting # <<>>
  /\ so.waiting[1].run.lastGood = "c2"
  /\ dr.pc = "setCursor"
  /\ dr.lastGood = "c1"
  /\ PersistedCursor(sync_cursors, dr) = "c1"
  /\ so.waiting[1].run.scope = dr.scope

\* ---------------------------------------- claims: conflicts and the cursor
\* the page whose apply result the run holds had upserts skipped as conflicts and
\* no change of it errored
ConflictsOnly(run) ==
  /\ Len(run.response.changes) > 0
  /\ run.result.conflicts > 0
  /\ Len(run.result.errors) = 0

\* the upsert is the remote version of a Conflict row recorded for its entity
RecordedAsConflict(cdb, scope, change) ==
  \E id \in DOMAIN cdb :
    /\ cdb[id].scope_key = scopeKey(scope)
    /\ cdb[id].entity_key = change.entityKey
    /\ cdb[id].entity_id = change.entityId
    /\ cdb[id].remote_version_json = dataJson(change.data)

ReceivesPage == dr.pc = "pullChanges" /\ dr'.pc \in {"applyChanges", "setCursor"}

StartsRun == dr.pc = "idle" /\ dr'.pc = "getCursor"

\* C40 -- Conflicts do not hold the cursor.  When the apply of a pulled page
\* reports upserts skipped as conflicts and no error, the step that receives the
\* result persists the page's nextCursor and the run goes on: it pulls the next
\* page from that cursor if the page said hasMore and the page bound is not
\* reached.  A run started later reads the persisted cursor, and no page a run
\* receives holds an upsert recorded as a conflict by an earlier page, whether or
\* not the local op has been pushed meanwhile.
C40_ConflictsDoNotHoldCursor ==
  [][ /\ dr.pc = "applied" /\ ConflictsOnly(dr) =>
           /\ PersistedCursor(sync_cursors', dr) = dr.response.nextCursor
           /\ dr'.pc = "setCursor"
      /\ dr.pc = "setCursor" /\ ConflictsOnly(dr) /\ hasMoreOf(dr.response)
           /\ dr.pagesPulled < maxPagesPerRun =>
           /\ dr'.pc = "pullChanges"
           /\ dr'.currentCursor = dr.response.nextCursor
      /\ StartsRun => dr'.currentCursor = PersistedCursor(sync_cursors, dr')
      /\ ReceivesPage =>
           \A i \in DOMAIN dr'.response.changes :
             LET change == dr'.response.changes[i]
             IN  change.kind = "upsert" => ~RecordedAsConflict(conflicts, dr.scope, change) ]_vars

\* the upsert of page 1 was skipped as a conflict, its op has been pushed since,
\* and a later run has started from the cursor of page 1 and received page 2
C40_Witness ==
  /\ dr.pc = "applyChanges"
  /\ dr.startCursor = "c1"
  /\ dr.response.changes = << FeedChange(2) >>
  /\ RecordedAsConflict(conflicts, dr.scope, FeedChange(1))
  /\ \E id \in DOMAIN outbox_ops : outbox_ops[id].state = "succeeded"
  /\ "e1" \notin DOMAIN example_items

\* ------------------------------------------------ claims: isSyncing
\* the processOutbox of the call `who` is inside its try block
Draining(s, who) ==
  s[who].pc \in {"processBatch", "refreshPendingCount in processOutbox"}

\* a triggerForegroundSync has set isSyncing and has reached neither its last
\* updateStatus({ isSyncing: false, lastSyncAt }) nor its catch
ForegroundSyncing(s) ==
  /\ s.app.fn = "triggerForegroundSync"
  /\ s.app.pc \in {"processBatch", "refreshPendingCount in processOutbox", "runDeltaPull"}

SyncInProgress(s) ==
  ForegroundSyncing(s) \/ Draining(s, "poll") \/ Draining(s, "app")

\* C37 (as stated): isSyncing is accurate.  In every reachable state
\* SyncStatus.isSyncing is true if a triggerForegroundSync or an outbox drain of
\* the orchestrator is in progress, also when a poll-timer drain and a foreground
\* sync overlap, and it is false if none is in progress.
C37_AsStated == so.status.isSyncing <=> SyncInProgress(so)

\* the drain of a poll tick has ended and cleared isSyncing while the
\* triggerForegroundSync that started during that drain awaits its delta pull
C37_Witness ==
  /\ so.poll.pc = "idle"
  /\ so.app.fn = "triggerForegroundSync"
  /\ so.app.pc = "runDeltaPull"
  /\ so.app.wasSyncing
  /\ dr.pc = "pullChanges"
  /\ ~so.status.isSyncing

\* ------------------------------------------------ claims: a drain and its scope
\* the processOutbox of `who` calls processBatch in this step
CallsProcessBatch(who) ==
  \/ so[who].pc # "processBatch" /\ so'[who].pc = "processBatch"
  \/ ret'.call = "processBatch" /\ ret'.outcome = "busy" /\ so'[who] # so[who]

\* the scope that call is made with
CalledWith == IF ret'.call = "processBatch" THEN ret'.args[1] ELSE pbScope'

\* the processOutbox of `who` ends with an exception of a processBatch that the
\* push adapter did not cause
DrainRaises(who) ==
  /\ so[who].pc = "processBatch"
  /\ ret.call = "processBatch"
  /\ ret.outcome = "threw"
  /\ pc = "idle"
  /\ so'[who].pc # "processBatch"

\* C38 (as stated): a drain keeps its scope.  Every processBatch call a drain makes
\* is made with the scope that was active when the drain started, also after
\* stopScopeSync() or startScopeSync(other) during one of its awaits, and the
\* drain does not end with an exception.
C38_AsStated ==
  [][ \A who \in {"app", "poll"} :
        /\ CallsProcessBatch(who) => CalledWith = so'[who].scope
        /\ ~DrainRaises(who) ]_vars

\* the drain of a poll tick, started for workspace w1, has ended with the
\* exception of processBatch(null) after stopScopeSync(), its op pushed
C38_Witness ==
  /\ ret.call = "poll"
  /\ ret.outcome = "threw"
  /\ so.activeScope = NoScope
  /\ \E id \in DOMAIN outbox_ops : outbox_ops[id].state = "succeeded"

====
